---- MODULE Spec2Model ----
(***************************************************************************)
(* EspHttpServer: the route table and dispatcher of Server                 *)
(* (src/src/EspHttpServer.cpp), with the Request/Response state a          *)
(* dispatch touches.                                                       *)
(*                                                                         *)
(* A String is a sequence of one-character strings: "/a" is <<"/", "a">>.  *)
(* Character codes are ASCII, through the table Printable.                 *)
(***************************************************************************)
EXTENDS Integers, Sequences, FiniteSets, TLC

VARIABLES
    handle,          \* Server::_handle # nullptr (the httpd is started)
    methodHooks,     \* Server::_methodHooks, as the set of hooked methods
    dynamicRoutes,   \* Server::_dynamicRoutes
    notFoundHandler, \* Server::_notFoundHandler (0: empty std::function)
    handlers,        \* Server::_handlers (static registrations)
    onCalls,         \* number of Server::on calls made with a handler
    request,         \* the Request of the last dispatch, as it ended
    response,        \* the Response of the last dispatch, as it ended
    invoked,         \* user callbacks the last dispatch invoked, in order
    workers,         \* the locals of the dispatches running on the httpd's workers
    probe,           \* input of the pure-function specifications
    result           \* output of the pure-function specifications

vars == <<handle, methodHooks, dynamicRoutes, notFoundHandler, handlers,
          onCalls, request, response, invoked, workers, probe, result>>

serverVars == <<handle, methodHooks, dynamicRoutes, notFoundHandler, handlers, onCalls>>
dispatchVars == <<request, response, invoked, workers>>
probeVars == <<probe, result>>

----------------------------------------------------------------------------
(* Characters and Arduino String operations                                *)

\* ASCII 32..126, Printable[c - 31] is the character of code c
Printable ==
    << " ", "!", "\"", "#", "$", "%", "&", "'", "(", ")", "*", "+", ",", "-", ".", "/",
       "0", "1", "2", "3", "4", "5", "6", "7", "8", "9", ":", ";", "<", "=", ">", "?",
       "@", "A", "B", "C", "D", "E", "F", "G", "H", "I", "J", "K", "L", "M", "N", "O",
       "P", "Q", "R", "S", "T", "U", "V", "W", "X", "Y", "Z", "[", "\\", "]", "^", "_",
       "GRAVE", "a", "b", "c", "d", "e", "f", "g", "h", "i", "j", "k", "l", "m", "n", "o",
       "p", "q", "r", "s", "t", "u", "v", "w", "x", "y", "z", "{", "|", "}", "~" >>

Ord(c) == CHOOSE n \in 32..126 : Printable[n - 31] = c

Chr(n) == Printable[n - 31]

\* s.startsWith(p)
StartsWith(s, p) == Len(s) >= Len(p) /\ SubSeq(s, 1, Len(p)) = p

\* s.endsWith(p)
EndsWith(s, p) == Len(s) >= Len(p) /\ SubSeq(s, Len(s) - Len(p) + 1, Len(s)) = p

\* s.indexOf(c): 0-based index of the first c, -1 when there is none
IndexOf(s, c) ==
    IF \E i \in 1..Len(s) : s[i] = c
    THEN (CHOOSE i \in 1..Len(s) : s[i] = c /\ \A j \in 1..(i - 1) : s[j] # c) - 1
    ELSE -1

\* s.substring(from, to), 0-based, to exclusive
Substring(s, from, to) == SubSeq(s, from + 1, to)

\* s.substring(from)
SubstringFrom(s, from) == SubSeq(s, from + 1, Len(s))

\* the loop that splits a String on a slash, dropping empty segments
RECURSIVE SplitLoop(_, _, _, _)
SplitLoop(s, i, current, segs) ==
    IF i > Len(s)
    THEN IF current # <<>> THEN Append(segs, current) ELSE segs
    ELSE IF s[i] = "/"
         THEN IF current # <<>>
              THEN SplitLoop(s, i + 1, <<>>, Append(segs, current))
              ELSE SplitLoop(s, i + 1, <<>>, segs)
         ELSE SplitLoop(s, i + 1, Append(current, s[i]), segs)

SplitSegments(s) == SplitLoop(s, 1, <<>>, <<>>)

\* the prologue shared by parseRoutePattern and normalizeRoutePath:
\* cut at the first question mark, the empty String becomes the root, a leading slash is added
StripQuery(s) ==
    LET q == IndexOf(s, "?")
        w1 == IF q >= 0 THEN Substring(s, 0, q) ELSE s
        w2 == IF w1 = <<>> THEN <<"/">> ELSE w1
    IN  IF ~StartsWith(w2, <<"/">>) THEN <<"/">> \o w2 ELSE w2

----------------------------------------------------------------------------
(* Server::parseRoutePattern                                               *)

Segment(t, v) == [type |-> t, value |-> v]

\* the loop over rawSegments; [ok, segments, score]
RECURSIVE ParseTokens(_, _, _, _, _)
ParseTokens(raw, i, wildcardSeen, segs, score) ==
    IF i > Len(raw)
    THEN [ok |-> TRUE, segments |-> segs, score |-> score]
    ELSE LET token == raw[i]
             name == SubstringFrom(token, 1)
         IN  IF StartsWith(token, <<"*">>)
             THEN IF wildcardSeen \/ i # Len(raw)
                  THEN [ok |-> FALSE, segments |-> segs, score |-> score]
                  ELSE IF name = <<>>
                       THEN [ok |-> FALSE, segments |-> segs, score |-> score]
                       ELSE ParseTokens(raw, i + 1, TRUE,
                                        Append(segs, Segment("Wildcard", name)), score + 1)
             ELSE IF StartsWith(token, <<":">>)
                  THEN IF name = <<>>
                       THEN [ok |-> FALSE, segments |-> segs, score |-> score]
                       ELSE ParseTokens(raw, i + 1, wildcardSeen,
                                        Append(segs, Segment("Param", name)), score + 2)
                  ELSE ParseTokens(raw, i + 1, wildcardSeen,
                                   Append(segs, Segment("Literal", token)), score + 3)

\* parseRoutePattern scoring every segment 1
parseRoutePatternFlat(pattern) ==
    [ParseTokens(SplitSegments(StripQuery(pattern)), 1, FALSE, <<>>, 0)
        EXCEPT !.score = Len(ParseTokens(SplitSegments(StripQuery(pattern)), 1, FALSE, <<>>, 0).segments)]

\* parseRoutePattern reporting success whatever the tokens are
parseRoutePatternLax(pattern) ==
    [ParseTokens(SplitSegments(StripQuery(pattern)), 1, FALSE, <<>>, 0) EXCEPT !.ok = TRUE]

\* parseRoutePattern classifying the tokens without checking them
parseRoutePatternUnchecked(pattern) ==
    [ok |-> TRUE,
     segments |->
         [i \in 1..Len(SplitSegments(StripQuery(pattern))) |->
             IF StartsWith(SplitSegments(StripQuery(pattern))[i], <<"*">>)
             THEN Segment("Wildcard", SubstringFrom(SplitSegments(StripQuery(pattern))[i], 1))
             ELSE IF StartsWith(SplitSegments(StripQuery(pattern))[i], <<":">>)
                  THEN Segment("Param", SubstringFrom(SplitSegments(StripQuery(pattern))[i], 1))
                  ELSE Segment("Literal", SplitSegments(StripQuery(pattern))[i])],
     score |->
         3 * Cardinality({i \in 1..Len(SplitSegments(StripQuery(pattern))) :
                             /\ ~StartsWith(SplitSegments(StripQuery(pattern))[i], <<"*">>)
                             /\ ~StartsWith(SplitSegments(StripQuery(pattern))[i], <<":">>)})
         + 2 * Cardinality({i \in 1..Len(SplitSegments(StripQuery(pattern))) :
                               StartsWith(SplitSegments(StripQuery(pattern))[i], <<":">>)})
         + Cardinality({i \in 1..Len(SplitSegments(StripQuery(pattern))) :
                           StartsWith(SplitSegments(StripQuery(pattern))[i], <<"*">>)})]

parseRoutePattern(pattern) ==
    ParseTokens(SplitSegments(StripQuery(pattern)), 1, FALSE, <<>>, 0)

----------------------------------------------------------------------------
(* Server::matchRoute                                                      *)

\* JoinRest without the separator between the segments
RECURSIVE JoinRestNoSlash(_, _, _, _)
JoinRestNoSlash(pathSegments, pathIndex, j, rest) ==
    IF j > Len(pathSegments)
    THEN rest
    ELSE JoinRestNoSlash(pathSegments, pathIndex, j + 1, rest \o pathSegments[j])

\* the Wildcard case: the path segments from pathIndex on, joined by slashes
RECURSIVE JoinRest(_, _, _, _)
JoinRest(pathSegments, pathIndex, j, rest) ==
    IF j > Len(pathSegments)
    THEN rest
    ELSE JoinRest(pathSegments, pathIndex, j + 1,
                  (IF j > pathIndex THEN rest \o <<"/">> ELSE rest) \o pathSegments[j])

\* the loop over route.segments; pathIndex is 1-based here; [ok, params],
\* params being outParams as the call leaves it
RECURSIVE MatchLoop(_, _, _, _, _)
MatchLoop(segments, i, pathSegments, pathIndex, outParams) ==
    IF i > Len(segments)
    THEN [ok |-> pathIndex = Len(pathSegments) + 1, params |-> outParams]
    ELSE LET segment == segments[i]
         IN  CASE segment.type = "Literal" ->
                    IF pathIndex > Len(pathSegments) \/ pathSegments[pathIndex] # segment.value
                    THEN [ok |-> FALSE, params |-> outParams]
                    ELSE MatchLoop(segments, i + 1, pathSegments, pathIndex + 1, outParams)
               [] segment.type = "Param" ->
                    IF pathIndex > Len(pathSegments)
                    THEN [ok |-> FALSE, params |-> outParams]
                    ELSE MatchLoop(segments, i + 1, pathSegments, pathIndex + 1,
                                   Append(outParams, <<segment.value, pathSegments[pathIndex]>>))
               [] segment.type = "Wildcard" ->
                    MatchLoop(segments, i + 1, pathSegments, Len(pathSegments) + 1,
                              Append(outParams,
                                     <<segment.value, JoinRest(pathSegments, pathIndex, pathIndex, <<>>)>>))

\* matchRoute looking only at as many path segments as the route has
matchRoutePrefix(route, pathSegments) ==
    MatchLoop(route.segments, 1,
              IF Len(pathSegments) > Len(route.segments)
              THEN SubSeq(pathSegments, 1, Len(route.segments))
              ELSE pathSegments,
              1, <<>>)

matchRoute(route, pathSegments) == MatchLoop(route.segments, 1, pathSegments, 1, <<>>)

----------------------------------------------------------------------------
(* Server::urlDecode and Server::normalizeRoutePath                        *)

\* the hexToInt lambda of urlDecode: -1 for a character that is no hex digit
hexToInt(c) ==
    LET n == Ord(c)
    IN  IF n >= Ord("0") /\ n <= Ord("9") THEN n - Ord("0")
        ELSE IF n >= Ord("a") /\ n <= Ord("f") THEN n - Ord("a") + 10
        ELSE IF n >= Ord("A") /\ n <= Ord("F") THEN n - Ord("A") + 10
        ELSE -1

\* the loop of urlDecode; i is 1-based here, so the code's i + 2 < length
\* reads i + 2 <= Len(input)
RECURSIVE DecodeLoop(_, _, _)
DecodeLoop(input, i, out) ==
    IF i > Len(input)
    THEN out
    ELSE LET c == input[i]
         IN  IF c = "%"
             THEN IF i + 2 <= Len(input)
                     /\ hexToInt(input[i + 1]) >= 0
                     /\ hexToInt(input[i + 2]) >= 0
                  THEN DecodeLoop(input, i + 3,
                                  Append(out, Chr(hexToInt(input[i + 1]) * 16 + hexToInt(input[i + 2]))))
                  ELSE DecodeLoop(input, i + 1, Append(out, c))
             ELSE IF c = "+"
                  THEN DecodeLoop(input, i + 1, Append(out, " "))
                  ELSE DecodeLoop(input, i + 1, Append(out, c))

urlDecode(input) == DecodeLoop(input, 1, <<>>)

\* normalized = "/" followed by the segments joined by slashes
RECURSIVE JoinNormalized(_, _, _)
JoinNormalized(segments, i, normalized) ==
    IF i > Len(segments)
    THEN normalized
    ELSE JoinNormalized(segments, i + 1,
                        normalized \o segments[i] \o (IF i + 1 <= Len(segments) THEN <<"/">> ELSE <<>>))

\* normalizeRoutePath splitting before it decodes: each segment of the raw
\* path is decoded on its own
normalizeRoutePathSplitFirst(raw) ==
    LET rawSegments == SplitSegments(StripQuery(raw))
        segments == [i \in 1..Len(rawSegments) |-> urlDecode(rawSegments[i])]
    IN  [ok |-> TRUE, normalized |-> JoinNormalized(segments, 1, <<"/">>), segments |-> segments]

\* [ok, normalized, segments]; the function has no return but "return true"
normalizeRoutePath(raw) ==
    LET segments == SplitSegments(urlDecode(StripQuery(raw)))
    IN  [ok |-> TRUE, normalized |-> JoinNormalized(segments, 1, <<"/">>), segments |-> segments]

----------------------------------------------------------------------------
(* Helpers of the static side                                              *)

ensureLeadingSlash(path) == IF StartsWith(path, <<"/">>) THEN path ELSE <<"/">> \o path

\* extractRelativePath without the test of the character after the prefix
extractRelativePathNoBoundary(uri, prefix) ==
    IF ~StartsWith(uri, prefix)
    THEN [ok |-> FALSE, out |-> <<>>]
    ELSE LET rel == SubstringFrom(uri, Len(prefix))
         IN  [ok |-> TRUE, out |-> ensureLeadingSlash(IF rel = <<>> THEN <<"/">> ELSE rel)]

\* [ok, out]
extractRelativePath(uri, prefix) ==
    IF ~StartsWith(uri, prefix)
    THEN [ok |-> FALSE, out |-> <<>>]
    ELSE IF Len(uri) > Len(prefix) /\ ~EndsWith(prefix, <<"/">>) /\ uri[Len(prefix) + 1] # "/"
         THEN [ok |-> FALSE, out |-> <<>>]
         ELSE LET rel == SubstringFrom(uri, Len(prefix))
              IN  [ok |-> TRUE, out |-> ensureLeadingSlash(IF rel = <<>> THEN <<"/">> ELSE rel)]

joinFsPath(base, rel) ==
    LET r1 == IF base = <<>> THEN <<"/">> ELSE base
        r2 == IF ~EndsWith(r1, <<"/">>) THEN r1 \o <<"/">> ELSE r1
        trimmed == IF StartsWith(rel, <<"/">>) THEN SubstringFrom(rel, 1) ELSE rel
    IN  r2 \o trimmed

\* the prefix normalisation of both Server::serveStatic overloads
RECURSIVE StripTrailingSlashes(_)
StripTrailingSlashes(prefix) ==
    IF Len(prefix) > 1 /\ EndsWith(prefix, <<"/">>)
    THEN StripTrailingSlashes(SubSeq(prefix, 1, Len(prefix) - 1))
    ELSE prefix

NormalizePrefix(uriPrefix) ==
    LET p1 == IF uriPrefix = <<>> THEN <<"/">> ELSE uriPrefix
        p2 == IF ~StartsWith(p1, <<"/">>) THEN <<"/">> \o p1 ELSE p1
    IN  StripTrailingSlashes(p2)

GZ == <<".", "g", "z">>

\* relBase of both resolvers: relPath without a trailing ".gz"
RelBase(relPath) ==
    IF EndsWith(relPath, GZ)
    THEN LET b == Substring(relPath, 0, Len(relPath) - 3)
         IN  IF b = <<>> THEN <<"/">> ELSE b
    ELSE relPath

\* the closing step of both resolvers: a gzip variant's logicalPath loses ".gz"
StripGzSuffix(isGzipped, logicalPath) ==
    IF isGzipped /\ EndsWith(logicalPath, GZ)
    THEN Substring(logicalPath, 0, Len(logicalPath) - 3)
    ELSE logicalPath

\* kIndexCandidates with "index.htm" ahead of "index.html"
kIndexCandidatesHtmFirst ==
    << <<"i", "n", "d", "e", "x", ".", "h", "t", "m">>,
       <<"i", "n", "d", "e", "x", ".", "h", "t", "m", "l">> >>

\* kIndexCandidates
kIndexCandidates ==
    << <<"i", "n", "d", "e", "x", ".", "h", "t", "m", "l">>,
       <<"i", "n", "d", "e", "x", ".", "h", "t", "m">> >>

\* a default-constructed StaticInfo
EmptyStaticInfo ==
    [uri |-> <<>>, relPath |-> <<>>, fsPath |-> <<>>, exists |-> FALSE,
     isDir |-> FALSE, isGzipped |-> FALSE, logicalPath |-> <<>>]

----------------------------------------------------------------------------
(* Response                                                                *)

\* Response::attachRequest, with the members' default initialisers
NewResponse ==
    [committed |-> FALSE, chunked |-> FALSE, lastStatusCode |-> 0,
     staticSource |-> "None", staticInfo |-> EmptyStaticInfo, sent |-> <<>>]

\* one status line handed to the httpd: by whom ("user": a callback of the
\* application, "server": the library's own fallback) and through which call
Sent(by, op, status) == [by |-> by, op |-> op, status |-> status]

markCommitted(res) == [res EXCEPT !.committed = TRUE]

\* Response::sendError, with no error renderer installed
sendError(res, by, status) ==
    [markCommitted(res) EXCEPT !.chunked = FALSE, !.lastStatusCode = status,
                               !.sent = Append(@, Sent(by, "sendError", status))]

\* Response::send
send(res, by, code) ==
    [markCommitted(res) EXCEPT !.lastStatusCode = code,
                               !.sent = Append(@, Sent(by, "send", code))]

\* Response::beginChunked
beginChunked(res, by, code) ==
    [markCommitted(res) EXCEPT !.chunked = TRUE, !.lastStatusCode = code,
                               !.sent = Append(@, Sent(by, "beginChunked", code))]

\* Response::redirect
redirect(res, by, status) ==
    [markCommitted(res) EXCEPT !.lastStatusCode = status,
                               !.sent = Append(@, Sent(by, "redirect", status))]

\* Response::sendStatic; streamOk is whether streaming the asset succeeded
sendStatic(res, by, streamOk) ==
    IF res.staticSource = "None"
    THEN sendError(res, by, 500)
    ELSE IF ~res.staticInfo.exists
         THEN sendError(res, by, 404)
         ELSE LET r == [markCommitted(res) EXCEPT !.lastStatusCode = 200,
                                                  !.sent = Append(@, Sent(by, "sendStatic", 200))]
              IN  IF streamOk THEN r ELSE sendError(r, by, 500)

\* what a user callback does with the Response it is given
HandlerActs == {"none", "send", "beginChunked", "sendStatic", "sendError", "redirect"}

RunHandler(res, act, streamOk) ==
    CASE act = "none" -> res
      [] act = "send" -> send(res, "user", 200)
      [] act = "beginChunked" -> beginChunked(res, "user", 200)
      [] act = "sendStatic" -> sendStatic(res, "user", streamOk)
      [] act = "sendError" -> sendError(res, "user", 403)
      [] act = "redirect" -> redirect(res, "user", 302)

\* one entry of the log of invoked callbacks
Invocation(kind, id, path, params, info, act) ==
    [kind |-> kind, id |-> id, path |-> path, params |-> params, info |-> info, act |-> act]

----------------------------------------------------------------------------
(* Server::setupStaticInfoFromFS and Server::setupStaticInfoFromMemory     *)

\* fs::FS::exists on the modelled file system [files, dirs]
FsExists(fs, path) == path \in fs.files \/ path \in fs.dirs

\* the index probe of the filesystem resolver: the first candidate that
\* exists, gzip variant first; [found, fsPath, logicalPath, useGz]
RECURSIVE FsIndexProbe(_, _, _)
FsIndexProbe(entry, dirRel, k) ==
    IF k > Len(kIndexCandidates)
    THEN [found |-> FALSE, fsPath |-> <<>>, logicalPath |-> <<>>, useGz |-> FALSE]
    ELSE LET candidateRel == dirRel \o kIndexCandidates[k]
             candidatePlain == joinFsPath(entry.basePath, candidateRel)
             candidateGz == candidatePlain \o GZ
         IN  IF FsExists(entry.fs, candidateGz)
             THEN [found |-> TRUE, fsPath |-> candidateGz,
                   logicalPath |-> ensureLeadingSlash(candidateRel), useGz |-> TRUE]
             ELSE IF FsExists(entry.fs, candidatePlain)
                  THEN [found |-> TRUE, fsPath |-> candidatePlain,
                        logicalPath |-> ensureLeadingSlash(candidateRel), useGz |-> FALSE]
                  ELSE FsIndexProbe(entry, dirRel, k + 1)

\* a StaticInfo from the locals the resolvers end with
MakeStaticInfo(normalizedUri, relPath, fsPath, exists, isDir, useGz, logicalPath) ==
    [uri |-> normalizedUri, relPath |-> relPath, fsPath |-> fsPath,
     exists |-> exists, isDir |-> isDir, isGzipped |-> useGz,
     logicalPath |-> StripGzSuffix(useGz, logicalPath)]

\* FsFirstProbe preferring the plain file to its gzip variant
FsFirstProbePlainFirst(fs, requestGz, plainFsPath, gzFsPath) ==
    IF requestGz
    THEN [fsPath |-> gzFsPath, exists |-> FsExists(fs, gzFsPath), useGz |-> TRUE, isDir |-> FALSE]
    ELSE IF FsExists(fs, plainFsPath)
         THEN [fsPath |-> plainFsPath, exists |-> TRUE, useGz |-> FALSE,
               isDir |-> plainFsPath \in fs.dirs]
         ELSE IF FsExists(fs, gzFsPath)
              THEN [fsPath |-> gzFsPath, exists |-> TRUE, useGz |-> TRUE, isDir |-> FALSE]
              ELSE [fsPath |-> plainFsPath, exists |-> FALSE, useGz |-> FALSE, isDir |-> FALSE]

\* the first probe of the filesystem resolver: [fsPath, exists, useGz, isDir]
FsFirstProbe(fs, requestGz, plainFsPath, gzFsPath) ==
    IF requestGz
    THEN [fsPath |-> gzFsPath, exists |-> FsExists(fs, gzFsPath), useGz |-> TRUE, isDir |-> FALSE]
    ELSE IF FsExists(fs, gzFsPath)
         THEN [fsPath |-> gzFsPath, exists |-> TRUE, useGz |-> TRUE, isDir |-> FALSE]
         ELSE IF FsExists(fs, plainFsPath)
              THEN [fsPath |-> plainFsPath, exists |-> TRUE, useGz |-> FALSE,
                    isDir |-> plainFsPath \in fs.dirs]
              ELSE [fsPath |-> plainFsPath, exists |-> FALSE, useGz |-> FALSE, isDir |-> FALSE]

\* dirRel: relBase with a leading and a trailing slash
DirRel(relBase) ==
    IF ~EndsWith(ensureLeadingSlash(relBase), <<"/">>)
    THEN ensureLeadingSlash(relBase) \o <<"/">>
    ELSE ensureLeadingSlash(relBase)

\* the directory step: an existing directory is replaced by its index file
FsDirectoryStep(normalizedUri, relPath, first, idx) ==
    IF first.exists /\ first.isDir
    THEN IF idx.found
         THEN MakeStaticInfo(normalizedUri, relPath, idx.fsPath, TRUE, FALSE, idx.useGz, idx.logicalPath)
         ELSE MakeStaticInfo(normalizedUri, relPath, first.fsPath, FALSE, FALSE, first.useGz, relPath)
    ELSE MakeStaticInfo(normalizedUri, relPath, first.fsPath, first.exists, first.isDir,
                        first.useGz, relPath)

FsResolve(entry, normalizedUri, relPath, relBase, plainFsPath) ==
    FsDirectoryStep(normalizedUri, relPath,
                    FsFirstProbe(entry.fs, EndsWith(relPath, GZ), plainFsPath, plainFsPath \o GZ),
                    FsIndexProbe(entry, DirRel(relBase), 1))

\* the StaticInfo the filesystem resolver builds
StaticInfoFromFS(entry, normalizedUri, relPath) ==
    FsResolve(entry, normalizedUri, relPath, RelBase(relPath),
              joinFsPath(entry.basePath, RelBase(relPath)))

\* index (0-based) of the first entry of memPaths equal to target, -1 if none
FirstIndex(memPaths, target) ==
    IF \E i \in 1..Len(memPaths) : memPaths[i] = target
    THEN (CHOOSE i \in 1..Len(memPaths) :
              memPaths[i] = target /\ \A j \in 1..(i - 1) : memPaths[j] # target) - 1
    ELSE -1

\* the findIndexByPath lambda
findIndexByPath(memPaths, target) == IF target = <<>> THEN -1 ELSE FirstIndex(memPaths, target)

\* the index probe of the memory resolver; [found, gzIndex, plainIndex, rel]
RECURSIVE MemIndexProbe(_, _, _)
MemIndexProbe(memPaths, dirPrefix, k) ==
    IF k > Len(kIndexCandidates)
    THEN [found |-> FALSE, gzIndex |-> -1, plainIndex |-> -1, rel |-> <<>>]
    ELSE LET candidateRel == dirPrefix \o kIndexCandidates[k]
             gzCandidate == findIndexByPath(memPaths, candidateRel \o GZ)
             plainCandidate == findIndexByPath(memPaths, candidateRel)
         IN  IF gzCandidate >= 0
             THEN [found |-> TRUE, gzIndex |-> gzCandidate, plainIndex |-> -1, rel |-> candidateRel]
             ELSE IF plainCandidate >= 0
                  THEN [found |-> TRUE, gzIndex |-> -1, plainIndex |-> plainCandidate,
                        rel |-> candidateRel]
                  ELSE MemIndexProbe(memPaths, dirPrefix, k + 1)

\* dirPrefix: relBase with a trailing slash
DirPrefix(relBase) == IF ~EndsWith(relBase, <<"/">>) THEN relBase \o <<"/">> ELSE relBase

\* the scan of memPaths and the index probe: [plainIndex, gzIndex, logicalPath]
\* MemIndexes putting the index of a directory before the plain entry
MemIndexesOverPlain(relPath, plainIndex, gzIndex, directoryHint, idx) ==
    IF gzIndex < 0 /\ directoryHint /\ idx.found
    THEN [plainIndex |-> idx.plainIndex, gzIndex |-> idx.gzIndex, logicalPath |-> idx.rel]
    ELSE [plainIndex |-> plainIndex, gzIndex |-> gzIndex, logicalPath |-> relPath]

MemIndexes(relPath, plainIndex, gzIndex, directoryHint, idx) ==
    IF plainIndex < 0 /\ gzIndex < 0 /\ directoryHint /\ idx.found
    THEN [plainIndex |-> idx.plainIndex, gzIndex |-> idx.gzIndex, logicalPath |-> idx.rel]
    ELSE [plainIndex |-> plainIndex, gzIndex |-> gzIndex, logicalPath |-> relPath]

\* chosenIndex, 0-based, -1 for none
ChosenIndex(requestGz, ix) ==
    IF requestGz
    THEN (IF ix.gzIndex >= 0 THEN ix.gzIndex ELSE -1)
    ELSE IF ix.gzIndex >= 0 THEN ix.gzIndex
         ELSE IF ix.plainIndex >= 0 THEN ix.plainIndex ELSE -1

MemChoose(memPaths, normalizedUri, relPath, requestGz, ix, chosenIndex) ==
    IF chosenIndex >= 0
    THEN MakeStaticInfo(normalizedUri, relPath, memPaths[chosenIndex + 1], TRUE, FALSE,
                        ix.gzIndex >= 0, ix.logicalPath)
    ELSE [uri |-> normalizedUri, relPath |-> relPath, fsPath |-> <<>>,
          exists |-> FALSE, isDir |-> FALSE, isGzipped |-> requestGz,
          logicalPath |-> ix.logicalPath]

MemResolve(memPaths, normalizedUri, relPath, requestGz, ix) ==
    MemChoose(memPaths, normalizedUri, relPath, requestGz, ix, ChosenIndex(requestGz, ix))

MemScan(memPaths, normalizedUri, relPath, relBase, dirPrefix) ==
    MemResolve(memPaths, normalizedUri, relPath, EndsWith(relPath, GZ),
               MemIndexes(relPath,
                          FirstIndex(memPaths, relBase),
                          FirstIndex(memPaths, relBase \o GZ),
                          EndsWith(relPath, <<"/">>)
                              \/ \E i \in 1..Len(memPaths) : StartsWith(memPaths[i], dirPrefix),
                          MemIndexProbe(memPaths, dirPrefix, 1)))

\* the StaticInfo the memory resolver builds
StaticInfoFromMemory(entry, normalizedUri, relPath) ==
    MemScan(entry.memPaths, normalizedUri, relPath,
            ensureLeadingSlash(RelBase(relPath)),
            DirPrefix(ensureLeadingSlash(RelBase(relPath))))

\* the static source the resolver leaves on the Response
StaticSourceOf(entry, info) ==
    IF entry.type = "StaticFS" THEN "FileSystem"
    ELSE IF info.exists THEN "Memory" ELSE "None"

\* AnswerStatic leaving a missing asset unanswered
AnswerStaticNoMissing(res, info, streamOk) ==
    IF ~res.committed /\ info.exists
    THEN sendStatic(res, "server", streamOk)
    ELSE res

\* the end of both resolvers: an uncommitted Response is answered with the
\* asset or a 404
AnswerStatic(res, info, streamOk) ==
    IF ~res.committed
    THEN IF info.exists
         THEN sendStatic(res, "server", streamOk)
         ELSE sendError(res, "server", 404)
    ELSE res

\* the source and info are set on the Response, the user's static handler
\* runs, the Response is answered; [response, invoked]
RunStatic(entryIndex, entry, normalizedUri, info, act, streamOk) ==
    [response |->
         AnswerStatic(RunHandler([NewResponse EXCEPT !.staticSource = StaticSourceOf(entry, info),
                                                     !.staticInfo = info],
                                 act, streamOk),
                      info, streamOk),
     invoked |-> <<Invocation("static", entryIndex, normalizedUri, <<>>, info, act)>>]

SetupStaticInfo(entryIndex, entry, normalizedUri, relPath, act, streamOk) ==
    RunStatic(entryIndex, entry, normalizedUri,
              IF entry.type = "StaticFS"
              THEN StaticInfoFromFS(entry, normalizedUri, relPath)
              ELSE StaticInfoFromMemory(entry, normalizedUri, relPath),
              act, streamOk)

----------------------------------------------------------------------------
(* Server: registration                                                    *)

\* no dispatch is running: the Request and Response of a dispatch are
\* locals of Server::dispatchDynamic
NoRequest == [method |-> "none", uri |-> <<>>, path |-> <<>>, params |-> <<>>]

\* no worker of the httpd is modelled
NoWorkers == <<>>

Idle == request = NoRequest

DynamicRoute(method, pattern, segments, score, handler) ==
    [method |-> method, pattern |-> pattern, segments |-> segments,
     score |-> score, handler |-> handler]

\* Server::ensureMethodHook, the httpd accepting every registration
ensureMethodHook(hooks, method) == hooks \cup {method}

\* Server::on(uri, method, handler); the handler of the k-th call made with
\* a handler is identified by k
On(uri, method, hasHandler, maxCalls) ==
    /\ Idle
    /\ onCalls < maxCalls
    /\ IF ~hasHandler
       THEN UNCHANGED <<onCalls, dynamicRoutes, methodHooks>>
       ELSE LET parsed == parseRoutePattern(uri)
            IN  /\ onCalls' = onCalls + 1
                /\ IF ~parsed.ok
                   THEN UNCHANGED <<dynamicRoutes, methodHooks>>
                   ELSE /\ methodHooks' = ensureMethodHook(methodHooks, method)
                        /\ dynamicRoutes' =
                               Append(dynamicRoutes,
                                      DynamicRoute(method, uri, parsed.segments, parsed.score,
                                                   onCalls + 1))
    /\ UNCHANGED <<handle, notFoundHandler, handlers, dispatchVars, probeVars>>

\* Server::onNotFound(handler); 0 is the empty handler
OnNotFound(handler) ==
    /\ Idle
    /\ notFoundHandler' = handler
    /\ UNCHANGED <<handle, methodHooks, dynamicRoutes, handlers, onCalls, dispatchVars, probeVars>>

\* both Server::serveStatic overloads, called with a handler; source is
\* [type, uriPrefix, basePath, fs, memPaths]
ServeStatic(source, maxStatic) ==
    /\ Idle
    /\ Len(handlers) < maxStatic
    /\ handlers' = Append(handlers, [source EXCEPT !.uriPrefix = NormalizePrefix(@)])
    /\ methodHooks' = ensureMethodHook(methodHooks, "HTTP_GET")
    /\ UNCHANGED <<handle, dynamicRoutes, notFoundHandler, onCalls, dispatchVars, probeVars>>

\* Server::begin, httpd_start succeeding
Begin ==
    /\ Idle
    /\ ~handle
    /\ handle' = TRUE
    /\ UNCHANGED <<methodHooks, dynamicRoutes, notFoundHandler, handlers, onCalls,
                   dispatchVars, probeVars>>

\* Server::end
End ==
    /\ Idle
    /\ handle
    /\ handle' = FALSE
    /\ UNCHANGED <<methodHooks, dynamicRoutes, notFoundHandler, handlers, onCalls,
                   dispatchVars, probeVars>>

----------------------------------------------------------------------------
(* Server::dispatchDynamic                                                 *)

\* Server::tryHandleStaticRequest: the indexes of the registrations whose
\* prefix the raw URI passes
StaticClaimers(rawPath) ==
    {k \in 1..Len(handlers) : extractRelativePath(rawPath, handlers[k].uriPrefix).ok}

\* relNormalized: the relative path of the normalized URI, of the raw one
\* when the normalized URI does not pass the prefix
RelNormalized(relRaw, relNorm) == IF relNorm.ok THEN relNorm.out ELSE relRaw.out

\* the first registration that claims the URI handles the request
HandleStaticWith(k, rawPath, normalizedPath, act, streamOk) ==
    SetupStaticInfo(k, handlers[k], normalizedPath,
                    RelNormalized(extractRelativePath(rawPath, handlers[k].uriPrefix),
                                  extractRelativePath(normalizedPath, handlers[k].uriPrefix)),
                    act, streamOk)

FirstOf(indexes) == CHOOSE k \in indexes : \A j \in indexes : k <= j

\* [handled, response, invoked]
tryHandleStaticRequest(method, rawPath, normalizedPath, act, streamOk) ==
    IF method # "HTTP_GET" \/ StaticClaimers(rawPath) = {}
    THEN [handled |-> FALSE, response |-> NewResponse, invoked |-> <<>>]
    ELSE [handled |-> TRUE] @@
         HandleStaticWith(FirstOf(StaticClaimers(rawPath)), rawPath, normalizedPath, act, streamOk)

\* the scan of _dynamicRoutes: [bestRoute, bestScore, bestParams], bestRoute
\* being an index into _dynamicRoutes, 0 for nullptr
RECURSIVE BestLoop(_, _, _, _, _)
BestLoop(routes, i, method, pathSegments, best) ==
    IF i > Len(routes)
    THEN best
    ELSE IF routes[i].method # method
         THEN BestLoop(routes, i + 1, method, pathSegments, best)
         ELSE IF matchRoute(routes[i], pathSegments).ok /\ routes[i].score > best.bestScore
              THEN BestLoop(routes, i + 1, method, pathSegments,
                            [bestRoute |-> i, bestScore |-> routes[i].score,
                             bestParams |-> matchRoute(routes[i], pathSegments).params])
              ELSE BestLoop(routes, i + 1, method, pathSegments, best)

\* the routes of the method that match
Candidates(routes, method, pathSegments) ==
    {i \in 1..Len(routes) : routes[i].method = method /\ matchRoute(routes[i], pathSegments).ok}

BestOf(routes, pathSegments, i) ==
    [bestRoute |-> i, bestScore |-> routes[i].score,
     bestParams |-> matchRoute(routes[i], pathSegments).params]

\* SelectRoute stopping at the first route that matches, whatever its score
SelectRouteFirstMatch(routes, method, pathSegments) ==
    IF Candidates(routes, method, pathSegments) = {}
    THEN [bestRoute |-> 0, bestScore |-> -1, bestParams |-> <<>>]
    ELSE BestOf(routes, pathSegments,
                CHOOSE i \in Candidates(routes, method, pathSegments) :
                    \A j \in Candidates(routes, method, pathSegments) : i <= j)

\* SelectRoute comparing with >=: the last of the best routes wins
SelectRouteLast(routes, method, pathSegments) ==
    IF Candidates(routes, method, pathSegments) = {}
    THEN [bestRoute |-> 0, bestScore |-> -1, bestParams |-> <<>>]
    ELSE BestOf(routes, pathSegments,
                CHOOSE i \in Candidates(routes, method, pathSegments) :
                    \A j \in Candidates(routes, method, pathSegments) :
                        routes[j].score < routes[i].score
                            \/ (routes[j].score = routes[i].score /\ j <= i))

SelectRoute(routes, method, pathSegments) ==
    BestLoop(routes, 1, method, pathSegments,
             [bestRoute |-> 0, bestScore |-> -1, bestParams |-> <<>>])

\* a callback ran on a fresh Response; an uncommitted Response is answered
\* with the fallback status
\* AnswerWith leaving the Response as the callback left it
AnswerWithNothing(res, status) == res

AnswerWith(res, status) == IF ~res.committed THEN sendError(res, "server", status) ELSE res

\* DispatchNotFound leaving an uncommitted Response unanswered
DispatchNotFoundNoFallback(req, act, streamOk) ==
    IF notFoundHandler # 0
    THEN [request |-> req,
          response |-> RunHandler(NewResponse, act, streamOk),
          invoked |-> <<Invocation("notFound", notFoundHandler, req.path, req.params,
                                   EmptyStaticInfo, act)>>]
    ELSE [request |-> req,
          response |-> sendError(NewResponse, "server", 404),
          invoked |-> <<>>]

\* no route matched: the not-found handler, or the default 404
DispatchNotFound(req, act, streamOk) ==
    IF notFoundHandler # 0
    THEN [request |-> req,
          response |-> AnswerWith(RunHandler(NewResponse, act, streamOk), 404),
          invoked |-> <<Invocation("notFound", notFoundHandler, req.path, req.params,
                                   EmptyStaticInfo, act)>>]
    ELSE [request |-> req,
          response |-> sendError(NewResponse, "server", 404),
          invoked |-> <<>>]

\* DispatchMatched leaving an uncommitted Response unanswered
DispatchMatchedNoFallback(req, route, act, streamOk) ==
    [request |-> req,
     response |-> RunHandler(NewResponse, act, streamOk),
     invoked |-> <<Invocation("route", route.handler, req.path, req.params,
                              EmptyStaticInfo, act)>>]

\* a route matched: its handler runs with the route's params
DispatchMatched(req, route, act, streamOk) ==
    [request |-> req,
     response |-> AnswerWith(RunHandler(NewResponse, act, streamOk), 500),
     invoked |-> <<Invocation("route", route.handler, req.path, req.params,
                              EmptyStaticInfo, act)>>]

\* the params a scan leaves in a tempParams that is never cleared: the
\* bindings of every route of the method up to the i-th
RECURSIVE LeftOver(_, _, _, _)
LeftOver(routes, method, pathSegments, i) ==
    IF i = 0 THEN <<>>
    ELSE LeftOver(routes, method, pathSegments, i - 1)
             \o (IF routes[i].method = method
                 THEN matchRoute(routes[i], pathSegments).params
                 ELSE <<>>)

\* DispatchBest binding what such a scan holds when the best route matched
DispatchBestNoClear(req, best, act, streamOk) ==
    IF best.bestRoute = 0
    THEN DispatchNotFound(req, act, streamOk)
    ELSE DispatchMatched([req EXCEPT !.params = LeftOver(dynamicRoutes, req.method,
                                                         SplitSegments(req.path),
                                                         best.bestRoute)],
                         dynamicRoutes[best.bestRoute], act, streamOk)

DispatchBest(req, best, act, streamOk) ==
    IF best.bestRoute = 0
    THEN DispatchNotFound(req, act, streamOk)
    ELSE DispatchMatched([req EXCEPT !.params = best.bestParams],
                         dynamicRoutes[best.bestRoute], act, streamOk)

\* the part of dispatchDynamic after the static attempt; [request, response, invoked]
DispatchRoutes(req, pathSegments, act, streamOk) ==
    DispatchBest(req, SelectRoute(dynamicRoutes, req.method, pathSegments), act, streamOk)

\* DispatchStatic with the two attempts swapped: the route table first
DispatchStaticRoutesFirst(req, st, pathSegments, act, streamOk) ==
    IF SelectRoute(dynamicRoutes, req.method, pathSegments).bestRoute = 0
          /\ req.method = "HTTP_GET" /\ st.handled
    THEN [request |-> req, response |-> st.response, invoked |-> st.invoked]
    ELSE DispatchRoutes(req, pathSegments, act, streamOk)

\* DispatchStatic going on to the route table when the asset does not exist
DispatchStaticFallThrough(req, st, pathSegments, act, streamOk) ==
    IF req.method = "HTTP_GET" /\ st.handled /\ st.response.staticInfo.exists
    THEN [request |-> req, response |-> st.response, invoked |-> st.invoked]
    ELSE DispatchRoutes(req, pathSegments, act, streamOk)

DispatchStatic(req, st, pathSegments, act, streamOk) ==
    IF req.method = "HTTP_GET" /\ st.handled
    THEN [request |-> req, response |-> st.response, invoked |-> st.invoked]
    ELSE DispatchRoutes(req, pathSegments, act, streamOk)

DispatchNormalized(method, rawUri, norm, act, streamOk) ==
    IF ~norm.ok
    THEN [request |-> [method |-> method, uri |-> rawUri, path |-> <<"/">>, params |-> <<>>],
          response |-> sendError(NewResponse, "server", 400),
          invoked |-> <<>>]
    ELSE DispatchStatic([method |-> method, uri |-> rawUri, path |-> norm.normalized, params |-> <<>>],
                        tryHandleStaticRequest(method, rawUri, norm.normalized, act, streamOk),
                        norm.segments, act, streamOk)

\* [request, response, invoked] when dispatchDynamic reaches a return
DispatchResult(method, rawUri, act, streamOk) ==
    DispatchNormalized(method, rawUri, normalizeRoutePath(rawUri), act, streamOk)

\* a Dispatch step with its result d
DispatchTo(d) ==
    /\ request' = d.request
    /\ response' = d.response
    /\ invoked' = d.invoked
    /\ workers' = workers

\* the httpd hands a request to Server::handleDynamicHttpRequest, which runs
\* dispatchDynamic up to its return; act is what the invoked callback does
\* Dispatch dropping the routes when the request ends in an error
DispatchForgetful(method, rawUri, act, streamOk) ==
    /\ Idle
    /\ handle
    /\ method \in methodHooks
    /\ DispatchTo(DispatchResult(method, rawUri, act, streamOk))
    /\ dynamicRoutes' = IF DispatchResult(method, rawUri, act, streamOk).response.lastStatusCode
                               \in {400, 404, 500}
                        THEN <<>>
                        ELSE dynamicRoutes
    /\ UNCHANGED <<handle, methodHooks, notFoundHandler, handlers, onCalls, probeVars>>

Dispatch(method, rawUri, act, streamOk) ==
    /\ Idle
    /\ handle
    /\ method \in methodHooks
    /\ DispatchTo(DispatchResult(method, rawUri, act, streamOk))
    /\ UNCHANGED <<serverVars, probeVars>>

\* dispatchDynamic returns: its Request and Response go out of scope
DispatchReturn ==
    /\ ~Idle
    /\ request' = NoRequest
    /\ response' = NewResponse
    /\ invoked' = <<>>
    /\ workers' = workers
    /\ UNCHANGED <<serverVars, probeVars>>

----------------------------------------------------------------------------
(* The server under registrations and requests                             *)

Methods == {"HTTP_GET", "HTTP_POST"}

\* bound on the Server::on calls and on the static registrations
MaxOn == 1
MaxStatic == 1

\* patterns given to Server::on: "/a/b", "/a/:x" and the malformed "/a/:"
Patterns ==
    { <<"/", "a", "/", "b">>,
      <<"/", "a", "/", ":", "x">>,
      <<"/", "a", "/", ":">> }

\* static registrations: a file system mounted at "/a" (given as "/a/") and
\* a memory table mounted at "/" (given as the empty prefix)
StaticSources ==
    { [type |-> "StaticFS", uriPrefix |-> <<"/", "a", "/">>, basePath |-> <<"/", "w">>,
       fs |-> [files |-> {<<"/", "w", "/", "b">>}, dirs |-> {<<"/", "w">>, <<"/", "w", "/">>}],
       memPaths |-> <<>>],
      [type |-> "StaticMem", uriPrefix |-> <<>>, basePath |-> <<>>,
       fs |-> [files |-> {}, dirs |-> {}],
       memPaths |-> << <<"/", "a", "/", "b", ".", "g", "z">>,
                       <<"/", "i", "n", "d", "e", "x", ".", "h", "t", "m", "l">> >>] }

\* request URIs: "/a/b", "/a/c", "/c", "/", "/a/b?q", "/a/%62" and "/%61/b"
\* (both an escaped "/a/b") and, with a malformed escape, "/a/%", "/a/%g1",
\* "/a/%6"
Uris ==
    { <<"/", "a", "/", "b">>,
      <<"/", "%", "6", "1", "/", "b">>,
      <<"/", "a", "/", "c">>,
      <<"/", "c">>,
      <<"/">>,
      <<"/", "a", "/", "b", "?", "q">>,
      <<"/", "a", "/", "%", "6", "2">>,
      <<"/", "a", "/", "%">>,
      <<"/", "a", "/", "%", "g", "1">>,
      <<"/", "a", "/", "%", "6">> }

NoProbe == [kind |-> "none"]

Init ==
    /\ handle = FALSE
    /\ methodHooks = {}
    /\ dynamicRoutes = <<>>
    /\ notFoundHandler = 0
    /\ handlers = <<>>
    /\ onCalls = 0
    /\ request = NoRequest
    /\ response = NewResponse
    /\ invoked = <<>>
    /\ workers = NoWorkers
    /\ probe = NoProbe
    /\ result = NoProbe

Next ==
    \/ \E uri \in Patterns, method \in Methods, hasHandler \in BOOLEAN :
           On(uri, method, hasHandler, MaxOn)
    \/ \E handler \in {0, 1} : OnNotFound(handler)
    \/ \E source \in StaticSources : ServeStatic(source, MaxStatic)
    \/ Begin
    \/ End
    \/ \E method \in Methods, rawUri \in Uris, act \in HandlerActs, streamOk \in BOOLEAN :
           Dispatch(method, rawUri, act, streamOk)
    \/ DispatchReturn

Spec == Init /\ [][Next]_vars

----------------------------------------------------------------------------
(* The route table alone: more patterns, no static side                    *)

MaxOnCalls == 2

\* "/a/b", "/a/:x", "/a/*r", "/a/b/*r", "/a/:x/*r", "/:x/b", "/", "/*r",
\* and the malformed "/a/:", "/a/*", "/*r/b", "/*/b"
RoutePatterns ==
    { <<"/", "a", "/", "b">>,
      <<"/", "a", "/", ":", "x">>,
      <<"/", "a", "/", "*", "r">>,
      <<"/", "a", "/", "b", "/", "*", "r">>,
      <<"/", "a", "/", ":", "x", "/", "*", "r">>,
      <<"/", ":", "x", "/", "b">>,
      <<"/">>,
      <<"/", "*", "r">>,
      <<"/", "a", "/", ":">>,
      <<"/", "a", "/", "*">>,
      <<"/", "*", "r", "/", "b">>,
      <<"/", "*", "/", "b">> }

\* "/a/b", "/a/c", "/a", "/", "/a/b/c", "/c/b"
RouteUris ==
    { <<"/", "a", "/", "b">>,
      <<"/", "a", "/", "c">>,
      <<"/", "a">>,
      <<"/">>,
      <<"/", "a", "/", "b", "/", "c">>,
      <<"/", "c", "/", "b">> }

NextRoutes ==
    \/ \E uri \in RoutePatterns, method \in Methods, hasHandler \in BOOLEAN :
           On(uri, method, hasHandler, MaxOnCalls)
    \/ Begin
    \/ \E method \in Methods, rawUri \in RouteUris, act \in {"none", "send"} :
           Dispatch(method, rawUri, act, TRUE)
    \/ DispatchReturn

SpecRoutes == Init /\ [][NextRoutes]_vars

----------------------------------------------------------------------------
(* matchRoute on the patterns parseRoutePattern compiles                   *)

MaxPatternSegs == 3
MaxRest == 2

\* pattern tokens "a", "b", ":x", ":y", "*r"
PatternTokens == { <<"a">>, <<"b">>, <<":", "x">>, <<":", "y">>, <<"*", "r">> }

\* path tokens "a", "4+", ":x": non-empty and slash-free
ValueTokens == { <<"a">>, <<"4", "+">>, <<":", "x">> }

SeqsUpTo(S, n) == UNION {[1..k -> S] : k \in 0..n}

\* "/t1/t2/..." of a sequence of tokens
RECURSIVE SlashJoin(_, _)
SlashJoin(tokens, i) ==
    IF i > Len(tokens) THEN <<>> ELSE <<"/">> \o tokens[i] \o SlashJoin(tokens, i + 1)

\* the patterns made of up to MaxPatternSegs tokens, and "", "a/:x",
\* "/a//:x/", "/:x?/b"
MatchPatterns ==
    {SlashJoin(t, 1) : t \in SeqsUpTo(PatternTokens, MaxPatternSegs)}
        \cup { <<>>,
               <<"a", "/", ":", "x">>,
               <<"/", "a", "/", "/", ":", "x", "/">>,
               <<"/", ":", "x", "?", "/", "b">> }

\* the path segments of a compiled pattern under a substitution: values[i]
\* replaces the Param at segment i, the segments of rest replace the Wildcard
RECURSIVE Substitute(_, _, _, _)
Substitute(segments, values, rest, i) ==
    IF i > Len(segments) THEN <<>>
    ELSE (CASE segments[i].type = "Literal" -> <<segments[i].value>>
            [] segments[i].type = "Param" -> <<values[i]>>
            [] segments[i].type = "Wildcard" -> rest)
         \o Substitute(segments, values, rest, i + 1)

\* the substitutions for a compiled pattern: a token for every Param, a
\* remainder of up to MaxRest segments for the Wildcard
ParamPositions(segments) == {i \in 1..Len(segments) : segments[i].type = "Param"}

Remainders(segments) ==
    IF \E i \in 1..Len(segments) : segments[i].type = "Wildcard"
    THEN SeqsUpTo(ValueTokens, MaxRest)
    ELSE {<<>>}

InitMatch ==
    /\ handle = FALSE
    /\ methodHooks = {}
    /\ dynamicRoutes = <<>>
    /\ notFoundHandler = 0
    /\ handlers = <<>>
    /\ onCalls = 0
    /\ request = NoRequest
    /\ response = NewResponse
    /\ invoked = <<>>
    /\ workers = NoWorkers
    /\ result = NoProbe
    /\ \E pattern \in MatchPatterns :
         \E values \in [ParamPositions(parseRoutePattern(pattern).segments) -> ValueTokens],
            rest \in Remainders(parseRoutePattern(pattern).segments) :
             probe = [kind |-> "match", pattern |-> pattern, values |-> values, rest |-> rest]

\* the pattern is compiled and matched against the substituted path
MatchResult(parsed, pathSegments) ==
    [kind |-> "match", parsed |-> parsed, pathSegments |-> pathSegments,
     match |-> matchRoute(DynamicRoute("HTTP_GET", probe.pattern, parsed.segments, parsed.score, 1),
                          pathSegments)]

MatchStep ==
    /\ probe.kind = "match"
    /\ result = NoProbe
    /\ result' = MatchResult(parseRoutePattern(probe.pattern),
                             Substitute(parseRoutePattern(probe.pattern).segments,
                                        probe.values, probe.rest, 1))
    /\ UNCHANGED <<serverVars, dispatchVars, probe>>

NextMatch == MatchStep

SpecMatch == InitMatch /\ [][NextMatch]_vars

----------------------------------------------------------------------------
(* matchRoute on any path                                                  *)

MaxPathSegs == 3

\* path segments "a", "b", "4+"
PathTokens == { <<"a">>, <<"b">>, <<"4", "+">> }

InitMatchAny ==
    /\ handle = FALSE
    /\ methodHooks = {}
    /\ dynamicRoutes = <<>>
    /\ notFoundHandler = 0
    /\ handlers = <<>>
    /\ onCalls = 0
    /\ request = NoRequest
    /\ response = NewResponse
    /\ invoked = <<>>
    /\ workers = NoWorkers
    /\ result = NoProbe
    /\ probe \in [kind : {"matchAny"}, pattern : MatchPatterns \cup {<<"/">>},
                  path : SeqsUpTo(PathTokens, MaxPathSegs)]

\* the pattern is compiled and matched against the path segments
MatchAnyStep ==
    /\ probe.kind = "matchAny"
    /\ result = NoProbe
    /\ result' = MatchResult(parseRoutePattern(probe.pattern), probe.path)
    /\ UNCHANGED <<serverVars, dispatchVars, probe>>

NextMatchAny == MatchAnyStep

SpecMatchAny == InitMatchAny /\ [][NextMatchAny]_vars

----------------------------------------------------------------------------
(* The static resolvers on small asset sources                             *)

\* bound on the number of entries of an asset source
MaxEntries == 3

IndexHtml == <<"i", "n", "d", "e", "x", ".", "h", "t", "m", "l">>
IndexHtm == <<"i", "n", "d", "e", "x", ".", "h", "t", "m">>

\* the entry names, relative to the source: "/d", "/d.gz",
\* "/d/index.html.gz", "/d/index.html", "/d/index.htm.gz", "/d/index.htm",
\* "/d/x"
StaticKeyOrder ==
    << <<"/", "d">>,
       <<"/", "d", ".", "g", "z">>,
       <<"/", "d", "/">> \o IndexHtml \o <<".", "g", "z">>,
       <<"/", "d", "/">> \o IndexHtml,
       <<"/", "d", "/">> \o IndexHtm \o <<".", "g", "z">>,
       <<"/", "d", "/">> \o IndexHtm,
       <<"/", "d", "/", "x">> >>

StaticKeys == {StaticKeyOrder[i] : i \in 1..Len(StaticKeyOrder)}

\* the relative paths asked for: "/d", "/d/", "/d.gz", "/d/index.html",
\* "/d/index.html.gz", "/d/index.htm"
StaticRelPaths ==
    { <<"/", "d">>,
      <<"/", "d", "/">>,
      <<"/", "d", ".", "g", "z">>,
      <<"/", "d", "/">> \o IndexHtml,
      <<"/", "d", "/">> \o IndexHtml \o <<".", "g", "z">>,
      <<"/", "d", "/">> \o IndexHtm }

\* a memory table holding the keys, in the order of StaticKeyOrder
MemSource(keys) ==
    LET Held(k) == k \in keys
    IN  [type |-> "StaticMem", uriPrefix |-> <<"/">>, basePath |-> <<>>,
         fs |-> [files |-> {}, dirs |-> {}],
         memPaths |-> SelectSeq(StaticKeyOrder, Held)]

\* a file system holding the keys under "/w": "/d" is a directory when it
\* has children or is an empty directory; whether the file system knows a
\* directory by its name with a trailing slash is up to the file system
FsSource(keys, emptyDir, slashForm) ==
    LET children == {k \in keys : StartsWith(k, <<"/", "d", "/">>)}
        dIsDir == children # {} \/ (<<"/", "d">> \in keys /\ emptyDir)
    IN  [type |-> "StaticFS", uriPrefix |-> <<"/">>, basePath |-> <<"/", "w">>,
         fs |-> [files |-> {<<"/", "w">> \o k : k \in IF dIsDir THEN keys \ {<<"/", "d">>} ELSE keys},
                 dirs |-> {<<"/", "w">>, <<"/", "w", "/">>}
                          \cup (IF dIsDir THEN {<<"/", "w", "/", "d">>} ELSE {})
                          \cup (IF dIsDir /\ slashForm THEN {<<"/", "w", "/", "d", "/">>} ELSE {})],
         memPaths |-> <<>>]

StaticSourcesOf(keys) ==
    {MemSource(keys)} \cup {FsSource(keys, e, sl) : e \in BOOLEAN, sl \in BOOLEAN}

InitStatic ==
    /\ handle = FALSE
    /\ methodHooks = {}
    /\ dynamicRoutes = <<>>
    /\ notFoundHandler = 0
    /\ handlers = <<>>
    /\ onCalls = 0
    /\ request = NoRequest
    /\ response = NewResponse
    /\ invoked = <<>>
    /\ workers = NoWorkers
    /\ result = NoProbe
    /\ \E keys \in {k \in SUBSET StaticKeys : Cardinality(k) <= MaxEntries} :
         \E entry \in StaticSourcesOf(keys), relPath \in StaticRelPaths :
             probe = [kind |-> "static", entry |-> entry, relPath |-> relPath]

\* the resolver of the entry's backend builds the StaticInfo of the path
StaticStep ==
    /\ probe.kind = "static"
    /\ result = NoProbe
    /\ result' = [kind |-> "static",
                  info |-> IF probe.entry.type = "StaticFS"
                           THEN StaticInfoFromFS(probe.entry, probe.relPath, probe.relPath)
                           ELSE StaticInfoFromMemory(probe.entry, probe.relPath, probe.relPath)]
    /\ UNCHANGED <<serverVars, dispatchVars, probe>>

NextStatic == StaticStep

SpecStatic == InitStatic /\ [][NextStatic]_vars

----------------------------------------------------------------------------
(* Response::streamHtmlFromSource                                          *)

kChunkLimit == 512

kHeadToken == <<"<", "h", "e", "a", "d">>

\* isspace
IsSpace(c) == c \in {" ", "\t", "\n", "\r", "\f"}

\* tolower
ToLower(c) ==
    IF c \in {Chr(n) : n \in 65..90} THEN Chr(Ord(c) + 32) ELSE c

\* String::trim
RECURSIVE TrimLeft(_)
TrimLeft(s) == IF s # <<>> /\ IsSpace(Head(s)) THEN TrimLeft(Tail(s)) ELSE s

RECURSIVE TrimRight(_)
TrimRight(s) ==
    IF s # <<>> /\ IsSpace(s[Len(s)]) THEN TrimRight(SubSeq(s, 1, Len(s) - 1)) ELSE s

Trim(s) == TrimRight(TrimLeft(s))

\* EscapeChar leaving the apostrophe as it is
EscapeCharNoApostrophe(c) ==
    CASE c = "&" -> <<"&", "a", "m", "p", ";">>
      [] c = "<" -> <<"&", "l", "t", ";">>
      [] c = ">" -> <<"&", "g", "t", ";">>
      [] c = "\"" -> <<"&", "q", "u", "o", "t", ";">>
      [] OTHER -> <<c>>

EscapeChar(c) ==
    CASE c = "&" -> <<"&", "a", "m", "p", ";">>
      [] c = "<" -> <<"&", "l", "t", ";">>
      [] c = ">" -> <<"&", "g", "t", ";">>
      [] c = "\"" -> <<"&", "q", "u", "o", "t", ";">>
      [] c = "'" -> <<"&", "#", "3", "9", ";">>
      [] OTHER -> <<c>>

\* the loop of htmlEscape over input[lo..hi]; the range is split in halves
\* so that a long text is evaluated with a shallow recursion
RECURSIVE EscapeLoop(_, _, _)
EscapeLoop(input, lo, hi) ==
    IF lo > hi THEN <<>>
    ELSE IF lo = hi THEN EscapeChar(input[lo])
         ELSE EscapeLoop(input, lo, (lo + hi) \div 2) \o EscapeLoop(input, (lo + hi) \div 2 + 1, hi)

htmlEscape(input) == EscapeLoop(input, 1, Len(input))

\* the locals of a render: the chunk buffer, the writes made to the httpd
\* (a zero-length write is the terminator), the head-injection and template
\* machines; ok is FALSE once a lambda has returned false; failAt is the
\* number of the httpd_resp_send_chunk call that fails (0: none). emitted
\* is the history of the characters given to emitChar, snippetAt the
\* lengths of that history at which the snippet was appended. consumed
\* counts the characters read from the stream, handlerCalls the calls of
\* the template handler, attempts the calls of httpd_resp_send_chunk; the
\* AtFailure fields keep the first two as they were when a write failed.
RenderStart(headSnippet, failAt) ==
    [chunk |-> <<>>, chunkLimit |-> kChunkLimit,
     writes |-> <<>>, ok |-> TRUE, failAt |-> failAt,
     snippetInserted |-> (headSnippet = <<>>), headMatchIdx |-> 0,
     awaitingHeadBoundary |-> FALSE, waitingHeadClose |-> FALSE,
     state |-> "Normal", braceCount |-> 0, waitingThird |-> FALSE, triple |-> FALSE,
     closingCount |-> 0, placeholderRaw |-> <<>>,
     emitted |-> <<>>, snippetAt |-> <<>>,
     consumed |-> 0, handlerCalls |-> 0, attempts |-> 0,
     consumedAtFailure |-> 0, handlerCallsAtFailure |-> 0]

\* httpd_resp_send_chunk
SendChunk(r, data) ==
    IF r.failAt = Len(r.writes) + 1
    THEN [r EXCEPT !.ok = FALSE, !.attempts = @ + 1,
                   !.consumedAtFailure = r.consumed,
                   !.handlerCallsAtFailure = r.handlerCalls]
    ELSE [r EXCEPT !.writes = Append(@, data), !.attempts = @ + 1]

flushChunk(r) ==
    IF ~r.ok \/ r.chunk = <<>>
    THEN r
    ELSE [SendChunk(r, r.chunk) EXCEPT !.chunk = IF r.failAt = Len(r.writes) + 1 THEN @ ELSE <<>>]

\* appendRawChar flushing only once the buffer has grown past the limit
appendRawCharLate(r, c) ==
    IF ~r.ok
    THEN r
    ELSE IF Len(r.chunk) + 1 > r.chunkLimit
         THEN flushChunk([r EXCEPT !.chunk = Append(@, c)])
         ELSE [r EXCEPT !.chunk = Append(@, c)]

\* appendRawChar losing the character that fills the buffer
appendRawCharDrop(r, c) ==
    IF ~r.ok
    THEN r
    ELSE IF Len(r.chunk) + 1 >= r.chunkLimit
         THEN flushChunk(r)
         ELSE [r EXCEPT !.chunk = Append(@, c)]

appendRawChar(r, c) ==
    IF ~r.ok
    THEN r
    ELSE IF Len(r.chunk) + 1 >= r.chunkLimit
         THEN flushChunk([r EXCEPT !.chunk = Append(@, c)])
         ELSE [r EXCEPT !.chunk = Append(@, c)]

\* the loop of appendRawString over text[lo..hi], the characters in order;
\* the range is split in halves to keep the evaluation shallow
RECURSIVE AppendRawRange(_, _, _, _)
AppendRawRange(r, text, lo, hi) ==
    IF ~r.ok \/ lo > hi THEN r
    ELSE IF lo = hi THEN appendRawChar(r, text[lo])
         ELSE AppendRawRange(AppendRawRange(r, text, lo, (lo + hi) \div 2),
                             text, (lo + hi) \div 2 + 1, hi)

appendRawString(r, text) == AppendRawRange(r, text, 1, Len(text))

\* InsertSnippet without setting snippetInserted
InsertSnippetAgain(r, c, headSnippet) ==
    IF ~appendRawString(appendRawChar(r, c), headSnippet).ok
    THEN appendRawString(appendRawChar(r, c), headSnippet)
    ELSE [appendRawString(appendRawChar(r, c), headSnippet)
              EXCEPT !.snippetAt = Append(@, Len(r.emitted))]

\* the closing ">" of the head tag: the character, then the snippet
InsertSnippet(r, c, headSnippet) ==
    IF ~appendRawString(appendRawChar(r, c), headSnippet).ok
    THEN appendRawString(appendRawChar(r, c), headSnippet)
    ELSE [appendRawString(appendRawChar(r, c), headSnippet)
              EXCEPT !.snippetInserted = TRUE,
                     !.snippetAt = Append(@, Len(r.emitted))]

\* HeadMatch starting over from nothing after a character that does not
\* continue "<head", also when that character is "<"
HeadMatchNoRestart(r, lower) ==
    IF lower = kHeadToken[r.headMatchIdx + 1]
    THEN IF r.headMatchIdx + 1 = Len(kHeadToken)
         THEN [r EXCEPT !.awaitingHeadBoundary = TRUE, !.headMatchIdx = 0]
         ELSE [r EXCEPT !.headMatchIdx = @ + 1]
    ELSE [r EXCEPT !.headMatchIdx = 0]

\* the scan for "<head" while neither flag is set
HeadMatch(r, lower) ==
    IF lower = kHeadToken[r.headMatchIdx + 1]
    THEN IF r.headMatchIdx + 1 = Len(kHeadToken)
         THEN [r EXCEPT !.awaitingHeadBoundary = TRUE, !.headMatchIdx = 0]
         ELSE [r EXCEPT !.headMatchIdx = @ + 1]
    ELSE [r EXCEPT !.headMatchIdx = IF lower = kHeadToken[1] THEN 1 ELSE 0]

\* emitChar on a render whose history already holds c
EmitScanned(r, c, headSnippet) ==
    IF r.snippetInserted
    THEN appendRawChar(r, c)
    ELSE IF ~r.awaitingHeadBoundary /\ ~r.waitingHeadClose
         THEN appendRawChar(HeadMatch(r, ToLower(c)), c)
         ELSE IF r.awaitingHeadBoundary
              THEN IF c = ">" \/ c = "/" \/ IsSpace(c)
                   THEN IF c = ">"
                        THEN InsertSnippet([r EXCEPT !.awaitingHeadBoundary = FALSE], c, headSnippet)
                        ELSE appendRawChar([r EXCEPT !.awaitingHeadBoundary = FALSE,
                                                     !.waitingHeadClose = TRUE], c)
                   ELSE appendRawChar([r EXCEPT !.awaitingHeadBoundary = FALSE], c)
              ELSE IF c = ">"
                   THEN InsertSnippet([r EXCEPT !.waitingHeadClose = FALSE], c, headSnippet)
                   ELSE appendRawChar(r, c)

emitChar(r, c, headSnippet) ==
    IF ~r.ok THEN r ELSE EmitScanned([r EXCEPT !.emitted = Append(@, c)], c, headSnippet)

\* the loop of emitString over text[lo..hi], the characters in order
RECURSIVE EmitRange(_, _, _, _, _)
EmitRange(r, text, lo, hi, headSnippet) ==
    IF ~r.ok \/ lo > hi THEN r
    ELSE IF lo = hi THEN emitChar(r, text[lo], headSnippet)
         ELSE EmitRange(EmitRange(r, text, lo, (lo + hi) \div 2, headSnippet),
                        text, (lo + hi) \div 2 + 1, hi, headSnippet)

emitString(r, text, headSnippet) == EmitRange(r, text, 1, Len(text), headSnippet)

RECURSIVE emitRepeat(_, _, _, _)
emitRepeat(r, c, count, headSnippet) ==
    IF ~r.ok \/ count <= 0
    THEN r
    ELSE emitRepeat(emitChar(r, c, headSnippet), c, count - 1, headSnippet)

\* the template handler of the render: the key "k" is handled, with the
\* configured value, unless the render is configured with a handler that
\* handles no key (handles = FALSE); [handled, replacement]
TemplateHandler(cfg, key) ==
    IF key = <<"k">> /\ ("handles" \in DOMAIN cfg => cfg.handles)
    THEN [handled |-> TRUE, replacement |-> cfg.value]
    ELSE [handled |-> FALSE, replacement |-> <<>>]

\* EmitPlaceholder escaping the value of a triple-brace placeholder too
EmitPlaceholderEscaped(r, cfg, needed, handled, replacement) ==
    IF handled
    THEN emitString(r, htmlEscape(replacement), cfg.headSnippet)
    ELSE emitRepeat(emitString(emitRepeat(r, "{", needed, cfg.headSnippet),
                               r.placeholderRaw, cfg.headSnippet),
                    "}", needed, cfg.headSnippet)

\* EmitPlaceholder putting the trimmed key back
EmitPlaceholderTrimmed(r, cfg, needed, handled, replacement) ==
    IF handled
    THEN emitString(r, IF ~r.triple THEN htmlEscape(replacement) ELSE replacement, cfg.headSnippet)
    ELSE emitRepeat(emitString(emitRepeat(r, "{", needed, cfg.headSnippet),
                               Trim(r.placeholderRaw), cfg.headSnippet),
                    "}", needed, cfg.headSnippet)

\* EmitPlaceholder writing the value past the head scan
EmitPlaceholderUnscanned(r, cfg, needed, handled, replacement) ==
    IF handled
    THEN appendRawString(r, IF ~r.triple THEN htmlEscape(replacement) ELSE replacement)
    ELSE emitRepeat(emitString(emitRepeat(r, "{", needed, cfg.headSnippet),
                               r.placeholderRaw, cfg.headSnippet),
                    "}", needed, cfg.headSnippet)

\* the placeholder is complete: the key is looked up and the value or the
\* original token is emitted
EmitPlaceholder(r, cfg, needed, handled, replacement) ==
    IF handled
    THEN emitString(r, IF ~r.triple THEN htmlEscape(replacement) ELSE replacement, cfg.headSnippet)
    ELSE emitRepeat(emitString(emitRepeat(r, "{", needed, cfg.headSnippet),
                               r.placeholderRaw, cfg.headSnippet),
                    "}", needed, cfg.headSnippet)

ResetPlaceholder(r) ==
    IF ~r.ok
    THEN r
    ELSE [r EXCEPT !.placeholderRaw = <<>>, !.closingCount = 0, !.triple = FALSE,
                   !.state = "Normal", !.braceCount = 0]

ClosePlaceholder(r, cfg, needed, key) ==
    ResetPlaceholder(
        EmitPlaceholder([r EXCEPT !.handlerCalls =
                                      IF cfg.templateActive /\ key # <<>> THEN @ + 1 ELSE @],
                        cfg, needed,
                        cfg.templateActive /\ key # <<>> /\ TemplateHandler(cfg, key).handled,
                        TemplateHandler(cfg, key).replacement))

RECURSIVE Braces(_, _)
Braces(c, n) == IF n <= 0 THEN <<>> ELSE <<c>> \o Braces(c, n - 1)

\* PlaceholderChar forgetting the closing braces that did not complete the
\* placeholder
PlaceholderCharDropClosing(r, ch, cfg) ==
    IF ch = "}"
    THEN IF r.closingCount + 1 = (IF r.triple THEN 3 ELSE 2)
         THEN ClosePlaceholder([r EXCEPT !.closingCount = @ + 1], cfg,
                               IF r.triple THEN 3 ELSE 2, Trim(r.placeholderRaw))
         ELSE [r EXCEPT !.closingCount = @ + 1]
    ELSE [r EXCEPT !.placeholderRaw = @ \o <<ch>>, !.closingCount = 0]

\* case Placeholder once waitingThird is settled
PlaceholderChar(r, ch, cfg) ==
    IF ch = "}"
    THEN IF r.closingCount + 1 = (IF r.triple THEN 3 ELSE 2)
         THEN ClosePlaceholder([r EXCEPT !.closingCount = @ + 1], cfg,
                               IF r.triple THEN 3 ELSE 2, Trim(r.placeholderRaw))
         ELSE [r EXCEPT !.closingCount = @ + 1]
    ELSE [r EXCEPT !.placeholderRaw = @ \o Braces("}", r.closingCount) \o <<ch>>,
                   !.closingCount = 0]

\* case Normal
NormalChar(r, ch, cfg) ==
    IF cfg.templateActive /\ ch = "{"
    THEN [r EXCEPT !.state = "OpenBrace", !.braceCount = 1]
    ELSE emitChar(r, ch, cfg.headSnippet)

\* the braces of OpenBrace are emitted and the machine is back in Normal
LeaveOpenBrace(r) ==
    IF ~r.ok THEN r ELSE [r EXCEPT !.braceCount = 0, !.state = "Normal"]

\* one character read from the stream, with its reprocessing
ProcessChar(r, ch, cfg) ==
    CASE ~r.ok -> r
      [] r.ok /\ r.state = "Normal" -> NormalChar(r, ch, cfg)
      [] r.ok /\ r.state = "OpenBrace" ->
            IF cfg.templateActive /\ ch = "{"
            THEN IF r.braceCount + 1 = 2
                 THEN [r EXCEPT !.braceCount = @ + 1, !.state = "Placeholder",
                                !.placeholderRaw = <<>>, !.waitingThird = TRUE,
                                !.triple = FALSE, !.closingCount = 0]
                 ELSE [r EXCEPT !.braceCount = @ + 1]
            ELSE NormalChar(LeaveOpenBrace(emitRepeat(r, "{", r.braceCount, cfg.headSnippet)),
                            ch, cfg)
      [] r.ok /\ r.state = "Placeholder" ->
            IF r.waitingThird
            THEN IF ch = "{"
                 THEN [r EXCEPT !.triple = TRUE, !.waitingThird = FALSE]
                 ELSE PlaceholderChar([r EXCEPT !.waitingThird = FALSE], ch, cfg)
            ELSE PlaceholderChar(r, ch, cfg)

\* the while loop over stream.readChar
\* ReadLoop reading on after a lambda has returned false
RECURSIVE ReadLoopOn(_, _, _, _, _)
ReadLoopOn(r, input, lo, hi, cfg) ==
    IF r.ok \notin BOOLEAN \/ lo > hi THEN r
    ELSE IF lo = hi THEN ProcessChar([r EXCEPT !.consumed = @ + 1], input[lo], cfg)
         ELSE ReadLoopOn(ReadLoopOn(r, input, lo, (lo + hi) \div 2, cfg),
                         input, (lo + hi) \div 2 + 1, hi, cfg)

RECURSIVE ReadLoop(_, _, _, _, _)
ReadLoop(r, input, lo, hi, cfg) ==
    IF ~r.ok \/ lo > hi THEN r
    ELSE IF lo = hi THEN ProcessChar([r EXCEPT !.consumed = @ + 1], input[lo], cfg)
         ELSE ReadLoop(ReadLoop(r, input, lo, (lo + hi) \div 2, cfg),
                       input, (lo + hi) \div 2 + 1, hi, cfg)

\* EndOfStream forgetting the closing braces already read
EndOfStreamNoClosing(r, cfg) ==
    IF ~r.ok
    THEN r
    ELSE IF r.state = "OpenBrace" /\ r.braceCount > 0
         THEN emitRepeat(r, "{", r.braceCount, cfg.headSnippet)
         ELSE IF r.state = "Placeholder"
              THEN emitString(emitRepeat(r, "{", IF r.triple THEN 3 ELSE 2, cfg.headSnippet),
                              r.placeholderRaw, cfg.headSnippet)
              ELSE r

\* the end of the stream: what the template machine still holds is emitted
EndOfStream(r, cfg) ==
    IF ~r.ok
    THEN r
    ELSE IF r.state = "OpenBrace" /\ r.braceCount > 0
         THEN emitRepeat(r, "{", r.braceCount, cfg.headSnippet)
         ELSE IF r.state = "Placeholder"
              THEN emitRepeat(emitString(emitRepeat(r, "{", IF r.triple THEN 3 ELSE 2,
                                                    cfg.headSnippet),
                                         r.placeholderRaw, cfg.headSnippet),
                              "}", r.closingCount, cfg.headSnippet)
              ELSE r

\* the final flush and the zero-length terminator
Terminate(r) == IF ~r.ok THEN r ELSE SendChunk(r, <<>>)

\* the render of the input under cfg = [templateActive, headSnippet, value,
\* failAt]; its field ok is the function's return value
streamHtmlFromSource(input, cfg) ==
    Terminate(flushChunk(EndOfStream(ReadLoop(RenderStart(cfg.headSnippet, cfg.failAt),
                                              input, 1, Len(input), cfg),
                                     cfg)))

\* the same function built with another value of the constant kChunkLimit
streamHtmlWithLimit(input, cfg, limit) ==
    Terminate(flushChunk(EndOfStream(ReadLoop([RenderStart(cfg.headSnippet, cfg.failAt)
                                                   EXCEPT !.chunkLimit = limit],
                                              input, 1, Len(input), cfg),
                                     cfg)))

----------------------------------------------------------------------------
(* Renders of small documents                                              *)

\* bound on the run of opening and of closing braces of the placeholder
MaxBraces == 3

\* the text before the placeholder: "", "a", "<head>", "<HeAd ", "<head", "{"
RenderPre ==
    { <<>>,
      <<"a">>,
      <<"<", "h", "e", "a", "d", ">">>,
      <<"<", "H", "e", "A", "d", " ">>,
      <<"<", "h", "e", "a", "d">>,
      <<"{">> }

\* the text between the braces: "", "k", " k ", " u ", " ", "u}u", "a>b"
RenderRaw ==
    { <<>>,
      <<"k">>,
      <<" ", "k", " ">>,
      <<" ", "u", " ">>,
      <<" ">>,
      <<"u", "}", "u">>,
      <<"a", ">", "b">> }

\* the text after the placeholder: "", "x", ">", "}", "<head>", "{{k}}"
RenderPost ==
    { <<>>,
      <<"x">>,
      <<">">>,
      <<"}">>,
      <<"<", "h", "e", "a", "d", ">">>,
      <<"{", "{", "k", "}", "}">> }

\* the values of the key "k": "A & B", "<b>'\"&", "<head>x"
RenderValues ==
    { <<"A", " ", "&", " ", "B">>,
      <<"<", "b", ">", "'", "\"", "&">>,
      <<"<", "h", "e", "a", "d", ">", "x">> }

\* no snippet, and "<!--X-->"
HeadSnippets ==
    { <<>>,
      <<"<", "!", "-", "-", "X", "-", "-", ">">> }

\* lengths around the chunk limit, for the values of the long renders
LongLengths == {kChunkLimit - 1, kChunkLimit, kChunkLimit + 1, 2 * kChunkLimit, 2 * kChunkLimit + 1}

LongText(n) == [i \in 1..n |-> "a"]

\* the document of a probe
InputOf(p) == p.pre \o Braces("{", p.open) \o p.raw \o Braces("}", p.close) \o p.post

\* short documents around one placeholder, the httpd accepting every write
ShortProbes ==
    [kind : {"render"}, pre : RenderPre, open : 0..MaxBraces, raw : RenderRaw,
     close : 0..MaxBraces, post : RenderPost, templateActive : BOOLEAN,
     headSnippet : HeadSnippets, value : RenderValues, failAt : {0}]

\* "{{k}}" with a long value, long plain documents, and placeholders after a
\* text that fills the first chunk, the httpd failing at none or one of its
\* writes
\* texts that put the head tag, the snippet or the placeholder across the
\* end of the first chunk
BoundaryPre ==
    {LongText(kChunkLimit - 8) \o <<"<", "h", "e", "a", "d", ">">>,
     LongText(kChunkLimit - 3) \o <<"<", "h", "e", "a", "d", ">">>,
     LongText(kChunkLimit - 1)}

LongProbes ==
    [kind : {"render"}, pre : {<<>>, <<"<", "h", "e", "a", "d", ">">>}, open : {2},
     raw : {<<"k">>}, close : {2}, post : {<<>>, <<"x">>}, templateActive : {TRUE},
     headSnippet : HeadSnippets, value : {LongText(n) : n \in LongLengths}, failAt : 0..3]
    \cup
    [kind : {"render"}, pre : {LongText(n) : n \in LongLengths}, open : {0},
     raw : {<<>>}, close : {0}, post : {<<>>}, templateActive : BOOLEAN,
     headSnippet : HeadSnippets, value : {<<>>}, failAt : 0..3]
    \cup
    [kind : {"render"}, pre : BoundaryPre, open : {2, 3},
     raw : {<<"k">>, <<" ", "u", " ">>}, close : {2, 3}, post : {<<>>, <<"x">>},
     templateActive : {TRUE}, headSnippet : HeadSnippets, value : RenderValues,
     failAt : 0..3]

\* what stands before a head tag: "", "<", "<he", "<header>", "x"
HeadPrefixes ==
    { <<>>,
      <<"<">>,
      <<"<", "h", "e">>,
      <<"<", "h", "e", "a", "d", "e", "r", ">">>,
      <<"x">> }

\* "<head" as the documents spell it: "<head", "<HEAD", "<Head"
HeadNames ==
    { <<"<", "h", "e", "a", "d">>,
      <<"<", "H", "E", "A", "D">>,
      <<"<", "H", "e", "a", "d">> }

\* what follows "<head" in a head tag, up to the closing ">": ">", "/>",
\* " lang=\"en\">", tab and ">"
HeadRests ==
    { <<">">>,
      <<"/", ">">>,
      <<" ", "l", "a", "n", "g", "=", "\"", "e", "n", "\"", ">">>,
      <<"\t", ">">> }

\* tags that only begin like the head tag: "<header>", "<heads>", "<he>"
NotHeadDocs ==
    { <<"<", "h", "e", "a", "d", "e", "r", ">">>,
      <<"<", "h", "e", "a", "d", "s", ">">>,
      <<"<", "h", "e", ">">> }

HeadDocs == {p \o n \o c : p \in HeadPrefixes, n \in HeadNames, c \in HeadRests}

\* documents without placeholder around one head tag, or with a tag that
\* only begins like it, and "", "x" or "<head>" after it
HeadProbes ==
    [kind : {"render"}, pre : HeadDocs \cup NotHeadDocs, open : {0}, raw : {<<>>},
     close : {0}, post : {<<>>, <<"x">>, <<"<", "h", "e", "a", "d", ">">>},
     templateActive : BOOLEAN, headSnippet : HeadSnippets \ {<<>>}, value : {<<>>},
     failAt : {0}]

\* the callers stream a document through streamHtmlFromSource only when a
\* template handler or a non-empty head snippet is set
needsProcessing(p) == p.templateActive \/ p.headSnippet # <<>>

InitRender ==
    /\ handle = FALSE
    /\ methodHooks = {}
    /\ dynamicRoutes = <<>>
    /\ notFoundHandler = 0
    /\ handlers = <<>>
    /\ onCalls = 0
    /\ request = NoRequest
    /\ response = NewResponse
    /\ invoked = <<>>
    /\ workers = NoWorkers
    /\ result = NoProbe
    /\ probe \in {p \in ShortProbes \cup LongProbes \cup HeadProbes : needsProcessing(p)}

\* Response::sendStatic streams the document through streamHtmlFromSource
RenderStep ==
    /\ probe.kind = "render"
    /\ result = NoProbe
    /\ result' = [kind |-> "render",
                  r |-> streamHtmlFromSource(InputOf(probe),
                                             [templateActive |-> probe.templateActive,
                                              headSnippet |-> probe.headSnippet,
                                              value |-> probe.value,
                                              failAt |-> probe.failAt])]
    /\ UNCHANGED <<serverVars, dispatchVars, probe>>

NextRender == RenderStep

SpecRender == InitRender /\ [][NextRender]_vars

----------------------------------------------------------------------------
(* Response::send and Response::sendStatic on documents that are rendered  *)

\* Response::send of a document that needs processing; r is the render that
\* streamHtmlFromSource made of it
sendProcessed(res, by, code, r) ==
    IF r.ok
    THEN send(res, by, code)
    ELSE sendError(send(res, by, code), by, 500)

\* a Response whose static asset exists in a memory table
StaticResponse ==
    [NewResponse EXCEPT !.staticSource = "Memory",
                        !.staticInfo = [EmptyStaticInfo EXCEPT !.exists = TRUE]]

\* a callback answers with Response::send or Response::sendStatic, and the
\* document goes through streamHtmlFromSource
SendStep ==
    /\ probe.kind = "render"
    /\ result = NoProbe
    /\ \E op \in {"send", "sendStatic"} :
           result' = [kind |-> op,
                      r |-> streamHtmlFromSource(InputOf(probe),
                                                 [templateActive |-> probe.templateActive,
                                                  headSnippet |-> probe.headSnippet,
                                                  value |-> probe.value,
                                                  failAt |-> probe.failAt]),
                      res |-> IF op = "send"
                              THEN sendProcessed(NewResponse, "user", 200,
                                       streamHtmlFromSource(InputOf(probe),
                                                 [templateActive |-> probe.templateActive,
                                                  headSnippet |-> probe.headSnippet,
                                                  value |-> probe.value,
                                                  failAt |-> probe.failAt]))
                              ELSE sendStatic(StaticResponse, "user",
                                       streamHtmlFromSource(InputOf(probe),
                                                 [templateActive |-> probe.templateActive,
                                                  headSnippet |-> probe.headSnippet,
                                                  value |-> probe.value,
                                                  failAt |-> probe.failAt]).ok)]
    /\ UNCHANGED <<serverVars, dispatchVars, probe>>

InitSend ==
    /\ InitRender
    /\ probe \in LongProbes

NextSend == SendStep

SpecSend == InitSend /\ [][NextSend]_vars

----------------------------------------------------------------------------
(* streamHtmlFromSource read by read: the loop over stream.readChar with   *)
(* its inner reprocess loop                                                *)

\* bound on the length of the documents
MaxDocLen == 7

\* bound on the rounds of the reprocess loop that are followed for one
\* character
MaxPasses == 4

\* the characters of the documents
DocChars == {"{", "}", "k"}

RECURSIVE DocsOfLen(_)
DocsOfLen(n) ==
    IF n = 0 THEN {<<>>}
    ELSE {Append(d, c) : d \in DocsOfLen(n - 1), c \in DocChars}

Docs == UNION {DocsOfLen(n) : n \in 0..MaxDocLen}

\* one round of the body of while (reprocess): [r, reprocess]
\* OnePass leaving waitingThird set when it asks for the character again
OnePassWaiting(r, ch, cfg) ==
    CASE r.state = "Normal" -> [r |-> NormalChar(r, ch, cfg), reprocess |-> FALSE]
      [] r.state = "OpenBrace" ->
            IF cfg.templateActive /\ ch = "{"
            THEN [r |-> IF r.braceCount + 1 = 2
                        THEN [r EXCEPT !.braceCount = @ + 1, !.state = "Placeholder",
                                       !.placeholderRaw = <<>>, !.waitingThird = TRUE,
                                       !.triple = FALSE, !.closingCount = 0]
                        ELSE [r EXCEPT !.braceCount = @ + 1],
                  reprocess |-> FALSE]
            ELSE [r |-> LeaveOpenBrace(emitRepeat(r, "{", r.braceCount, cfg.headSnippet)),
                  reprocess |-> emitRepeat(r, "{", r.braceCount, cfg.headSnippet).ok]
      [] r.state = "Placeholder" ->
            IF r.waitingThird
            THEN IF ch = "{"
                 THEN [r |-> [r EXCEPT !.triple = TRUE, !.waitingThird = FALSE],
                       reprocess |-> FALSE]
                 ELSE [r |-> r, reprocess |-> TRUE]
            ELSE [r |-> PlaceholderChar(r, ch, cfg), reprocess |-> FALSE]

OnePass(r, ch, cfg) ==
    CASE r.state = "Normal" -> [r |-> NormalChar(r, ch, cfg), reprocess |-> FALSE]
      [] r.state = "OpenBrace" ->
            IF cfg.templateActive /\ ch = "{"
            THEN [r |-> IF r.braceCount + 1 = 2
                        THEN [r EXCEPT !.braceCount = @ + 1, !.state = "Placeholder",
                                       !.placeholderRaw = <<>>, !.waitingThird = TRUE,
                                       !.triple = FALSE, !.closingCount = 0]
                        ELSE [r EXCEPT !.braceCount = @ + 1],
                  reprocess |-> FALSE]
            ELSE [r |-> LeaveOpenBrace(emitRepeat(r, "{", r.braceCount, cfg.headSnippet)),
                  reprocess |-> emitRepeat(r, "{", r.braceCount, cfg.headSnippet).ok]
      [] r.state = "Placeholder" ->
            IF r.waitingThird
            THEN IF ch = "{"
                 THEN [r |-> [r EXCEPT !.triple = TRUE, !.waitingThird = FALSE],
                       reprocess |-> FALSE]
                 ELSE [r |-> [r EXCEPT !.waitingThird = FALSE], reprocess |-> TRUE]
            ELSE [r |-> PlaceholderChar(r, ch, cfg), reprocess |-> FALSE]

\* the reprocess loop on one character, followed for MaxPasses rounds at
\* most: [r, passes, left], left telling that the loop was left
RECURSIVE InnerLoop(_, _, _, _)
InnerLoop(r, ch, cfg, passes) ==
    IF passes = MaxPasses
    THEN [r |-> r, passes |-> passes, left |-> FALSE]
    ELSE IF OnePass(r, ch, cfg).reprocess
         THEN InnerLoop(OnePass(r, ch, cfg).r, ch, cfg, passes + 1)
         ELSE [r |-> OnePass(r, ch, cfg).r, passes |-> passes + 1, left |-> TRUE]

\* the configuration of the render of a probe
ReadCfg(p) ==
    [templateActive |-> p.templateActive, handles |-> p.handles,
     headSnippet |-> p.headSnippet, value |-> p.value, failAt |-> p.failAt]

\* every document with and without a template handler, the handler
\* handling the key "k" or no key, with and without a head snippet; the
\* httpd failing the first write for the shorter documents
ReadProbes ==
    {p \in [kind : {"read"}, doc : Docs, templateActive : BOOLEAN, handles : BOOLEAN,
            headSnippet : {<<>>, <<"S">>}, value : {<<"v", "&">>}, failAt : {0, 1}] :
        /\ (p.handles => p.templateActive)
        /\ (p.failAt = 1 => Len(p.doc) <= MaxDocLen - 3)
        /\ (p.templateActive \/ p.headSnippet # <<>>)}

InitRead ==
    /\ handle = FALSE
    /\ methodHooks = {}
    /\ dynamicRoutes = <<>>
    /\ notFoundHandler = 0
    /\ handlers = <<>>
    /\ onCalls = 0
    /\ request = NoRequest
    /\ response = NewResponse
    /\ invoked = <<>>
    /\ workers = NoWorkers
    /\ probe \in ReadProbes
    /\ result = NoProbe

\* the stream is opened: the locals of streamHtmlFromSource
OpenStream ==
    /\ probe.kind = "read"
    /\ result = NoProbe
    /\ result' = [kind |-> "read", r |-> RenderStart(probe.headSnippet, probe.failAt),
                  pos |-> 0, passes |-> 0, left |-> TRUE, done |-> FALSE]
    /\ UNCHANGED <<serverVars, dispatchVars, probe>>

\* stream.readChar gives the next character and the reprocess loop runs
\* the outer loop goes round: the last character left the reprocess loop,
\* no lambda has failed and the stream has a character
CanRead ==
    /\ probe.kind = "read"
    /\ result # NoProbe
    /\ ~result.done
    /\ result.left
    /\ result.r.ok
    /\ result.pos < Len(probe.doc)

\* the outer loop is left: a lambda failed or the stream is at its end
AtEnd ==
    /\ probe.kind = "read"
    /\ result # NoProbe
    /\ ~result.done
    /\ result.left
    /\ ~result.r.ok \/ result.pos = Len(probe.doc)

ReadOne ==
    /\ CanRead
    /\ result' = [kind |-> "read", pos |-> result.pos + 1, done |-> FALSE] @@
                 InnerLoop([result.r EXCEPT !.consumed = @ + 1],
                           probe.doc[result.pos + 1], ReadCfg(probe), 0)
    /\ UNCHANGED <<serverVars, dispatchVars, probe>>

\* a lambda returned false, or stream.readChar returns false: what the
\* machine holds is emitted, the chunk is flushed, the function returns
ReadEnd ==
    /\ AtEnd
    /\ result' = [result EXCEPT !.r = Terminate(flushChunk(EndOfStream(@, ReadCfg(probe)))),
                                !.done = TRUE]
    /\ UNCHANGED <<serverVars, dispatchVars, probe>>

NextRead == OpenStream \/ ReadOne \/ ReadEnd

SpecRead == InitRead /\ [][NextRead]_vars

----------------------------------------------------------------------------
(* Dispatches on several workers of the httpd, registration finished       *)

\* bound on the workers that run a dispatch at the same time
MaxWorkers == 2

Workers == 1..MaxWorkers

\* the document of the asset a static handler streams: "<head>{{k}}"
StaticDoc == <<"<", "h", "e", "a", "d", ">", "{", "{", "k", "}", "}">>

\* the template handler and head snippet of the Response that renders it;
\* the httpd fails the first write of a stream that is to fail
WorkerCfg(l) ==
    [templateActive |-> TRUE,
     headSnippet |-> <<"<", "!", "-", "-", "X", "-", "-", ">">>,
     value |-> <<"A", " ", "&", " ", "B">>,
     failAt |-> IF l.streamOk THEN 0 ELSE 1]

NoBest == [bestRoute |-> 0, bestScore |-> -1, bestParams |-> <<>>]

\* a worker that runs no dispatch
IdleWorker ==
    [pc |-> "idle", method |-> "none", rawUri |-> <<>>, act |-> "none", streamOk |-> TRUE,
     request |-> NoRequest, response |-> NewResponse, invoked |-> <<>>,
     pathSegments |-> <<>>, i |-> 0, best |-> NoBest, tempParams |-> <<>>,
     static |-> FALSE, rendered |-> FALSE, r |-> RenderStart(<<>>, 0), pos |-> 0]

\* the locals of dispatchDynamic at its entry: Request request(req);
\* Response response(req)
WorkerEntry(method, rawUri, act, streamOk) ==
    [IdleWorker EXCEPT !.pc = "normalize", !.method = method, !.rawUri = rawUri,
                       !.act = act, !.streamOk = streamOk,
                       !.request = [method |-> method, uri |-> rawUri,
                                    path |-> <<"/">>, params |-> <<>>]]

\* the httpd hands a request to a free worker
WorkerStart(ws, w, method, rawUri, act, streamOk) ==
    [ws EXCEPT ![w] = WorkerEntry(method, rawUri, act, streamOk)]

\* normalizeRoutePath, the 400 answer, request.setPathInfo(normalized, {})
WorkerNormalize(ws, w) ==
    IF ~normalizeRoutePath(ws[w].rawUri).ok
    THEN [ws EXCEPT ![w].response = sendError(NewResponse, "server", 400),
                    ![w].pc = "done"]
    ELSE [ws EXCEPT ![w].request.path = normalizeRoutePath(ws[w].rawUri).normalized,
                    ![w].pathSegments = normalizeRoutePath(ws[w].rawUri).segments,
                    ![w].pc = "static"]

\* the answer depends on what the stream of the asset does: the static
\* handler streams the document
StaticRenders(l) ==
    tryHandleStaticRequest(l.method, l.rawUri, l.request.path, l.act, TRUE)
        # tryHandleStaticRequest(l.method, l.rawUri, l.request.path, l.act, FALSE)

RouteRenders(l) ==
    DispatchBest(l.request, l.best, l.act, TRUE) # DispatchBest(l.request, l.best, l.act, FALSE)

\* the document is opened: the locals of streamHtmlFromSource
WorkerOpen(l) ==
    [l EXCEPT !.pc = "render", !.rendered = TRUE,
              !.r = RenderStart(WorkerCfg(l).headSnippet, WorkerCfg(l).failAt)]

\* tryHandleStaticRequest up to the static handler's stream
WorkerStatic(ws, w) ==
    IF ws[w].method = "HTTP_GET" /\ StaticClaimers(ws[w].rawUri) # {}
    THEN [ws EXCEPT ![w] = IF StaticRenders(@)
                           THEN WorkerOpen([@ EXCEPT !.static = TRUE])
                           ELSE [@ EXCEPT !.static = TRUE, !.pc = "respond"]]
    ELSE [ws EXCEPT ![w].pc = "scan", ![w].i = 1, ![w].best = NoBest]

\* one round of the loop over _dynamicRoutes on the locals of one dispatch
ScanLocal(l) ==
    IF dynamicRoutes[l.i].method # l.method
    THEN [l EXCEPT !.i = @ + 1]
    ELSE IF matchRoute(dynamicRoutes[l.i], l.pathSegments).ok
              /\ dynamicRoutes[l.i].score > l.best.bestScore
         THEN [l EXCEPT !.i = @ + 1,
                        !.tempParams = matchRoute(dynamicRoutes[l.i], l.pathSegments).params,
                        !.best = [bestRoute |-> l.i, bestScore |-> dynamicRoutes[l.i].score,
                                  bestParams |-> matchRoute(dynamicRoutes[l.i],
                                                            l.pathSegments).params]]
         ELSE [l EXCEPT !.i = @ + 1,
                        !.tempParams = matchRoute(dynamicRoutes[l.i], l.pathSegments).params]

\* ScanRoute with bestParams a member of Server: what one dispatch stores
\* is what every dispatch binds
ScanRouteShared(ws, w) ==
    [v \in Workers |->
        IF v = w
        THEN ScanLocal(ws[w])
        ELSE [ws[v] EXCEPT !.best.bestParams = ScanLocal(ws[w]).best.bestParams]]

\* one round of the loop: tempParams and bestParams are locals
ScanRoute(ws, w) == [ws EXCEPT ![w] = ScanLocal(@)]

\* the loop is over: the handler to call is known
WorkerSelected(ws, w) ==
    [ws EXCEPT ![w] = IF RouteRenders(@) THEN WorkerOpen(@) ELSE [@ EXCEPT !.pc = "respond"]]

\* one round of the while loop over stream.readChar
WorkerReadChar(ws, w) ==
    [ws EXCEPT ![w].r = ProcessChar([@ EXCEPT !.consumed = @ + 1],
                                    StaticDoc[ws[w].pos + 1], WorkerCfg(ws[w])),
               ![w].pos = @ + 1]

\* the end of streamHtmlFromSource
WorkerEndOfStream(ws, w) ==
    [ws EXCEPT ![w].r = Terminate(flushChunk(EndOfStream(@, WorkerCfg(ws[w])))),
               ![w].pc = "respond"]

\* [request, response, invoked] of the dispatch, the stream having ended
\* as the worker's render did
WorkerOutcome(l) ==
    IF l.static
    THEN [request |-> l.request] @@
         [f \in {"response", "invoked"} |->
             tryHandleStaticRequest(l.method, l.rawUri, l.request.path, l.act,
                                    l.rendered => l.r.ok)[f]]
    ELSE DispatchBest(l.request, l.best, l.act, l.rendered => l.r.ok)

\* the handler's answer, and the fallback answer of dispatchDynamic
WorkerRespond(ws, w) ==
    [ws EXCEPT ![w].request = WorkerOutcome(ws[w]).request,
               ![w].response = WorkerOutcome(ws[w]).response,
               ![w].invoked = WorkerOutcome(ws[w]).invoked,
               ![w].pc = "done"]

\* dispatchDynamic returns: its locals go out of scope
WorkerReturn(ws, w) == [ws EXCEPT ![w] = IdleWorker]

WorkerStep(to) ==
    /\ workers' = to
    /\ UNCHANGED <<serverVars, request, response, invoked, probeVars>>

Start(w, method, rawUri, act, streamOk) ==
    /\ workers[w].pc = "idle"
    /\ handle
    /\ method \in methodHooks
    /\ WorkerStep(WorkerStart(workers, w, method, rawUri, act, streamOk))

Normalize(w) ==
    /\ workers[w].pc = "normalize"
    /\ WorkerStep(WorkerNormalize(workers, w))

Static(w) ==
    /\ workers[w].pc = "static"
    /\ WorkerStep(WorkerStatic(workers, w))

Scan(w) ==
    /\ workers[w].pc = "scan"
    /\ workers[w].i <= Len(dynamicRoutes)
    /\ WorkerStep(ScanRoute(workers, w))

Selected(w) ==
    /\ workers[w].pc = "scan"
    /\ workers[w].i > Len(dynamicRoutes)
    /\ WorkerStep(WorkerSelected(workers, w))

ReadChar(w) ==
    /\ workers[w].pc = "render"
    /\ workers[w].r.ok
    /\ workers[w].pos < Len(StaticDoc)
    /\ WorkerStep(WorkerReadChar(workers, w))

EndOfRender(w) ==
    /\ workers[w].pc = "render"
    /\ ~workers[w].r.ok \/ workers[w].pos = Len(StaticDoc)
    /\ WorkerStep(WorkerEndOfStream(workers, w))

Respond(w) ==
    /\ workers[w].pc = "respond"
    /\ WorkerStep(WorkerRespond(workers, w))

Return(w) ==
    /\ workers[w].pc = "done"
    /\ WorkerStep(WorkerReturn(workers, w))

\* the k-th route registered with Server::on
Registered(k, method, uri) ==
    DynamicRoute(method, uri, parseRoutePattern(uri).segments, parseRoutePattern(uri).score, k)

\* "/a/:x" and "/a/b" for GET, "/a/:x" for POST
WorkerRoutes ==
    << Registered(1, "HTTP_GET", <<"/", "a", "/", ":", "x">>),
       Registered(2, "HTTP_GET", <<"/", "a", "/", "b">>),
       Registered(3, "HTTP_POST", <<"/", "a", "/", ":", "x">>) >>

\* the static registrations: none, or the file system of StaticSources
\* mounted at "/a"
WorkerStatics ==
    { <<>> } \cup
    { << [source EXCEPT !.uriPrefix = NormalizePrefix(@)] >> :
          source \in {x \in StaticSources : x.type = "StaticFS"} }

\* request URIs: "/a/b", "/a/c" and, with a malformed escape, "/a/%"
WorkerUris ==
    { <<"/", "a", "/", "b">>,
      <<"/", "a", "/", "c">>,
      <<"/", "a", "/", "%">> }

WorkerActs == {"none", "sendStatic"}

\* the server after its registrations and Server::begin, no dispatch running
InitWorkers ==
    /\ handle = TRUE
    /\ methodHooks = Methods
    /\ dynamicRoutes = WorkerRoutes
    /\ notFoundHandler \in {0, 1}
    /\ handlers \in WorkerStatics
    /\ onCalls = Len(WorkerRoutes)
    /\ request = NoRequest
    /\ response = NewResponse
    /\ invoked = <<>>
    /\ workers = [w \in Workers |-> IdleWorker]
    /\ probe = NoProbe
    /\ result = NoProbe

NextWorkers ==
    \E w \in Workers :
        \/ \E method \in Methods, rawUri \in WorkerUris, act \in WorkerActs, streamOk \in BOOLEAN :
               /\ (~streamOk => act = "sendStatic")
               /\ Start(w, method, rawUri, act, streamOk)
        \/ Normalize(w)
        \/ Static(w)
        \/ Scan(w)
        \/ Selected(w)
        \/ ReadChar(w)
        \/ EndOfRender(w)
        \/ Respond(w)
        \/ Return(w)

SpecWorkers == InitWorkers /\ [][NextWorkers]_vars

----------------------------------------------------------------------------
(* Dispatches against registered tables: routes with shared prefixes and   *)
(* static registrations with overlapping prefixes                          *)

\* the route tables: none, and the same kinds of routes in two orders
\* ("/users/:id", "/a/b", "/:p/:q", "/a/:x/c" for GET and "/a/:x" for
\* POST; "/:p/:q", "/a/:x/c", "/a/*r", "/a/b", "/users/:id" for GET)
RouteTables ==
    { <<>>,
      << Registered(1, "HTTP_GET", <<"/", "u", "s", "e", "r", "s", "/", ":", "i", "d">>),
         Registered(2, "HTTP_GET", <<"/", "a", "/", "b">>),
         Registered(3, "HTTP_GET", <<"/", ":", "p", "/", ":", "q">>),
         Registered(4, "HTTP_GET", <<"/", "a", "/", ":", "x", "/", "c">>),
         Registered(5, "HTTP_POST", <<"/", "a", "/", ":", "x">>) >>,
      << Registered(1, "HTTP_GET", <<"/", ":", "p", "/", ":", "q">>),
         Registered(2, "HTTP_GET", <<"/", "a", "/", ":", "x", "/", "c">>),
         Registered(3, "HTTP_GET", <<"/", "a", "/", "*", "r">>),
         Registered(4, "HTTP_GET", <<"/", "a", "/", "b">>),
         Registered(5, "HTTP_GET", <<"/", "u", "s", "e", "r", "s", "/", ":", "i", "d">>) >> }

\* a file system with "/w/app.js", registered for "/static/" on the base
\* path "/w"
AssetsFs ==
    [type |-> "StaticFS", uriPrefix |-> <<"/", "s", "t", "a", "t", "i", "c", "/">>, basePath |-> <<"/", "w">>,
     fs |-> [files |-> {<<"/", "w", "/", "a", "p", "p", ".", "j", "s">>}, dirs |-> {<<"/", "w">>, <<"/", "w", "/">>}],
     memPaths |-> <<>>]

\* a memory table with "/index.html", registered for "/"
RootTable ==
    [type |-> "StaticMem", uriPrefix |-> <<"/">>, basePath |-> <<>>,
     fs |-> [files |-> {}, dirs |-> {}],
     memPaths |-> << <<"/", "i", "n", "d", "e", "x", ".", "h", "t", "m", "l">> >>]

\* Server::serveStatic stores the prefix normalised
Served(source) == [source EXCEPT !.uriPrefix = NormalizePrefix(@)]

\* the static registrations: none, the file system, and both in either order
StaticTables ==
    { <<>>,
      << Served(AssetsFs) >>,
      << Served(AssetsFs), Served(RootTable) >>,
      << Served(RootTable), Served(AssetsFs) >> }

\* the request URIs
DispatchUris ==
    { <<"/", "a", "/", "b">>,
      <<"/", "a", "/", "b", "?", "q">>,
      <<"/", "s", "t", "a", "t", "i", "c">>,
      <<"/", "s", "t", "a", "t", "i", "c", "?", "q">>,
      <<"/", "s", "t", "a", "t", "i", "c", "/", "a", "p", "p", ".", "j", "s">>,
      <<"/", "s", "t", "a", "t", "i", "c", "/", "a", "p", "p", ".", "j", "s", "?", "v">>,
      <<"/", "s", "t", "a", "t", "i", "c", "f", "i", "l", "e">>,
      <<"/", "s", "t", "a", "t", "i", "c", "/", "n", "o", "p", "e">>,
      <<"/", "u", "s", "%", "6", "5", "r", "s", "/", "4", "2">>,
      <<"/", "u", "s", "e", "r", "s", "/", "4", "2">>,
      <<"/", "u", "s", "e", "r", "s", "/", "4", "+", "2">>,
      <<"/", "a", "%", "2", "F", "b">>,
      <<"/", "a", "/", "/", "b", "/">>,
      <<"/", "a", "/", "b", "/", "c">>,
      <<"/", "s", "t", "a", "t", "i", "c", "/", ".", ".", "/", "x">>,
      <<"/", "s", "t", "a", "t", "i", "c", "/", "%", "2", "e", "%", "2", "e", "/", "x">>,
      <<"/">> }

\* the server after its registrations and Server::begin
InitDispatch ==
    /\ handle = TRUE
    /\ methodHooks = Methods
    /\ dynamicRoutes \in RouteTables
    /\ notFoundHandler \in {0, 1}
    /\ handlers \in StaticTables
    /\ onCalls = Len(dynamicRoutes)
    /\ request = NoRequest
    /\ response = NewResponse
    /\ invoked = <<>>
    /\ workers = NoWorkers
    /\ probe = NoProbe
    /\ result = NoProbe

NextDispatch ==
    \/ \E method \in Methods, rawUri \in DispatchUris, act \in HandlerActs, streamOk \in BOOLEAN :
           Dispatch(method, rawUri, act, streamOk)
    \/ DispatchReturn

SpecDispatch == InitDispatch /\ [][NextDispatch]_vars

----------------------------------------------------------------------------
(* Claims                                                                  *)

\* "/"-joined segments
RECURSIVE Joined(_)
Joined(segs) ==
    IF segs = <<>> THEN <<>>
    ELSE IF Len(segs) = 1 THEN segs[1]
    ELSE segs[1] \o <<"/">> \o Joined(Tail(segs))

\* the bindings a substitution stands for, in segment order
RECURSIVE Bindings(_, _, _, _)
Bindings(segments, values, rest, i) ==
    IF i > Len(segments) THEN <<>>
    ELSE (CASE segments[i].type = "Literal" -> <<>>
            [] segments[i].type = "Param" -> << <<segments[i].value, values[i]>> >>
            [] segments[i].type = "Wildcard" -> << <<segments[i].value, Joined(rest)>> >>)
         \o Bindings(segments, values, rest, i + 1)

\* C1: for every pattern parseRoutePattern accepts and every path made by
\* putting one non-empty slash-free token in place of each :name and zero or
\* more segments in place of a trailing *name, matchRoute succeeds and its
\* params are exactly the (name, value) pairs of the substitution, in
\* segment order, the Wildcard's value being its segments joined by "/".
C1_MatchRoundTrip ==
    (result # NoProbe /\ result.parsed.ok) =>
        /\ result.match.ok
        /\ result.match.params = Bindings(result.parsed.segments, probe.values, probe.rest, 1)

\* a Param and a Wildcard with a remainder of two segments were bound
C1_Witness ==
    /\ result # NoProbe
    /\ result.parsed.ok
    /\ Len(probe.rest) = 2
    /\ ParamPositions(result.parsed.segments) # {}
    /\ Len(result.match.params) >= 2
    /\ result.match.ok

\* the score of the spec: 3 per Literal, 2 per Param, 1 per Wildcard
Weight(segment) ==
    CASE segment.type = "Literal" -> 3
      [] segment.type = "Param" -> 2
      [] segment.type = "Wildcard" -> 1

RECURSIVE ScoreOf(_)
ScoreOf(segments) == IF segments = <<>> THEN 0 ELSE Weight(segments[1]) + ScoreOf(Tail(segments))

\* a route matches a path: segment by segment, a Literal equal to the path
\* segment, a Param any one segment, a trailing Wildcard the remainder
Matches(segments, path) ==
    IF segments # <<>> /\ segments[Len(segments)].type = "Wildcard"
    THEN /\ Len(path) >= Len(segments) - 1
         /\ \A i \in 1..(Len(segments) - 1) :
                segments[i].type = "Literal" => path[i] = segments[i].value
    ELSE /\ Len(path) = Len(segments)
         /\ \A i \in 1..Len(segments) :
                segments[i].type = "Literal" => path[i] = segments[i].value

\* the decoded path segments of the request of the running dispatch
PathOf(uri) == SplitSegments(urlDecode(StripQuery(uri)))

\* the routes of the request's method that match its path
Eligible ==
    {i \in 1..Len(dynamicRoutes) :
        /\ dynamicRoutes[i].method = request.method
        /\ Matches(dynamicRoutes[i].segments, PathOf(request.uri))}

\* the dispatch invoked a route handler
RouteInvoked == invoked # <<>> /\ invoked[1].kind = "route"

\* the route whose handler the dispatch invoked
InvokedRoute == CHOOSE i \in 1..Len(dynamicRoutes) : dynamicRoutes[i].handler = invoked[1].id

\* C2: the handler a dispatch invokes belongs to a route that has the
\* request's method, matches the path, and whose score (3 per Literal, 2 per
\* Param, 1 per Wildcard) is maximal among the routes of that method that
\* match; a route of another method is never selected.
C2_BestScoreWins ==
    RouteInvoked =>
        /\ \E i \in 1..Len(dynamicRoutes) : dynamicRoutes[i].handler = invoked[1].id
        /\ InvokedRoute \in Eligible
        /\ \A j \in Eligible :
               ScoreOf(dynamicRoutes[j].segments) <= ScoreOf(dynamicRoutes[InvokedRoute].segments)

\* a later, higher-scoring route was preferred to an earlier match, with a
\* route of the other method registered as well
C2_Witness ==
    /\ RouteInvoked
    /\ Cardinality(Eligible) >= 2
    /\ \E j \in Eligible :
           /\ j < InvokedRoute
           /\ ScoreOf(dynamicRoutes[j].segments) < ScoreOf(dynamicRoutes[InvokedRoute].segments)

AllLiteral(segments) == \A i \in 1..Len(segments) : segments[i].type = "Literal"

\* the all-literal routes of the request's method whose pattern is the path
LiteralRoutes ==
    {i \in Eligible :
        /\ AllLiteral(dynamicRoutes[i].segments)
        /\ Len(dynamicRoutes[i].segments) = Len(PathOf(request.uri))}

\* the route ends in a Wildcard that binds the empty remainder of the path
BindsEmptyRest(i) ==
    /\ dynamicRoutes[i].segments # <<>>
    /\ dynamicRoutes[i].segments[Len(dynamicRoutes[i].segments)].type = "Wildcard"
    /\ Len(dynamicRoutes[i].segments) - 1 = Len(PathOf(request.uri))

\* the dispatch reached the route table
ReachedRoutes == request # NoRequest /\ (invoked = <<>> \/ invoked[1].kind # "static")

\* C3 as stated: when an all-literal route equal to the path is registered
\* with any other matching route that has a Param or Wildcard, the dispatch
\* selects the all-literal route.
C3_Original ==
    (ReachedRoutes /\ LiteralRoutes # {}) => (RouteInvoked /\ InvokedRoute \in LiteralRoutes)

\* C3: when an all-literal route equal to the path is registered with other
\* matching routes of the method, none of which ends in a Wildcard binding
\* the empty remainder, the dispatch selects the all-literal route, in
\* either order of registration.
C3_LiteralBeatsParams ==
    (ReachedRoutes /\ LiteralRoutes # {} /\ \A j \in Eligible : ~BindsEmptyRest(j)) =>
        (RouteInvoked /\ InvokedRoute \in LiteralRoutes)

\* the all-literal route won although a route with a Param was registered first
C3_Witness ==
    /\ RouteInvoked
    /\ InvokedRoute \in LiteralRoutes
    /\ \A j \in Eligible : ~BindsEmptyRest(j)
    /\ \E j \in Eligible : j < InvokedRoute /\ ~AllLiteral(dynamicRoutes[j].segments)

\* the winner of a method and URI under a route table, 0 for none
Winner(routes, method, uri) == SelectRoute(routes, method, PathOf(uri)).bestRoute

\* a step appends a route that scores no more than the present winner
AppendsNoBetter(method, uri) ==
    /\ Len(dynamicRoutes') = Len(dynamicRoutes) + 1
    /\ Winner(dynamicRoutes, method, uri) # 0
    /\ dynamicRoutes'[Len(dynamicRoutes')].score
           <= dynamicRoutes[Winner(dynamicRoutes, method, uri)].score

\* C4: among the matching routes of the request's method that share the
\* maximal score the dispatch invokes the one registered first, and
\* registering a further route of equal or lower score never changes the
\* winner of a path.
C4_FirstRegisteredWins ==
    /\ [](RouteInvoked =>
            \A j \in Eligible :
                ScoreOf(dynamicRoutes[j].segments) = ScoreOf(dynamicRoutes[InvokedRoute].segments)
                    => InvokedRoute <= j)
    /\ [][\A method \in Methods, uri \in RouteUris :
            AppendsNoBetter(method, uri) =>
                Winner(dynamicRoutes', method, uri) = Winner(dynamicRoutes, method, uri)]_vars

\* two routes with different patterns tie at the maximal score and the
\* first registered was invoked
C4_Witness ==
    /\ RouteInvoked
    /\ \E j \in Eligible :
           /\ InvokedRoute < j
           /\ dynamicRoutes[j].pattern # dynamicRoutes[InvokedRoute].pattern
           /\ ScoreOf(dynamicRoutes[j].segments) = ScoreOf(dynamicRoutes[InvokedRoute].segments)

\* the pattern has a "*" or ":" token without a name, or a Wildcard token
\* that is not the last one
Malformed(pattern) ==
    \E i \in 1..Len(SplitSegments(StripQuery(pattern))) :
        \/ SplitSegments(StripQuery(pattern))[i] \in {<<"*">>, <<":">>}
        \/ /\ SplitSegments(StripQuery(pattern))[i][1] = "*"
           /\ i # Len(SplitSegments(StripQuery(pattern)))

\* C5: registering a malformed pattern adds no route and leaves the route
\* table as it was, and no request is dispatched to its handler: the table
\* only grows by a well-formed route appended, and the handler a dispatch
\* invokes is that of a route of the table.
C5_MalformedRejected ==
    /\ [](/\ \A i \in 1..Len(dynamicRoutes) : ~Malformed(dynamicRoutes[i].pattern)
          /\ RouteInvoked =>
                 \E i \in 1..Len(dynamicRoutes) : dynamicRoutes[i].handler = invoked[1].id)
    /\ [][\/ dynamicRoutes' = dynamicRoutes
          \/ /\ Len(dynamicRoutes') = Len(dynamicRoutes) + 1
             /\ SubSeq(dynamicRoutes', 1, Len(dynamicRoutes)) = dynamicRoutes]_vars

\* a registration was rejected, a later one accepted, and the accepted
\* route's handler served a request
C5_Witness ==
    /\ onCalls = 2
    /\ Len(dynamicRoutes) = 1
    /\ dynamicRoutes[1].handler = 2
    /\ RouteInvoked

\* a hex digit
IsHex(c) == c \in {"0", "1", "2", "3", "4", "5", "6", "7", "8", "9",
                   "a", "b", "c", "d", "e", "f", "A", "B", "C", "D", "E", "F"}

\* the part of the URI before the first "?"
BeforeQuery(uri) ==
    IF \E i \in 1..Len(uri) : uri[i] = "?"
    THEN SubSeq(uri, 1, (CHOOSE i \in 1..Len(uri) : uri[i] = "?" /\ \A j \in 1..(i - 1) : uri[j] # "?") - 1)
    ELSE uri

\* the path has a "%" that two hex digits do not follow
HasMalformedEscape(uri) ==
    \E i \in 1..Len(BeforeQuery(uri)) :
        /\ BeforeQuery(uri)[i] = "%"
        /\ ~(/\ i + 2 <= Len(BeforeQuery(uri))
             /\ IsHex(BeforeQuery(uri)[i + 1])
             /\ IsHex(BeforeQuery(uri)[i + 2]))

\* C6: a request whose path has a malformed percent escape is answered with
\* 400 and no static or route handler is invoked.
C6_Original ==
    (request # NoRequest /\ HasMalformedEscape(request.uri)) =>
        /\ response.sent = <<Sent("server", "sendError", 400)>>
        /\ invoked = <<>>

\* a static registration claims the request
StaticClaimed == request.method = "HTTP_GET" /\ StaticClaimers(request.uri) # {}

\* C7: for a GET request the static side is tried before the route table:
\* when a static registration claims the URI, its handler is the one
\* callback invoked, also when a dynamic route matches the path; for any
\* other method no static resolution is made.
C7_StaticBeforeRoutes ==
    /\ StaticClaimed =>
           /\ Len(invoked) = 1
           /\ invoked[1].kind = "static"
           /\ invoked[1].id = FirstOf(StaticClaimers(request.uri))
    /\ (request # NoRequest /\ request.method # "HTTP_GET") =>
           /\ \A k \in 1..Len(invoked) : invoked[k].kind # "static"
           /\ response.staticSource = "None"
           /\ response.staticInfo = EmptyStaticInfo

\* a GET request that a static registration claims and a dynamic route
\* matches went to the static handler
C7_Witness ==
    /\ StaticClaimed
    /\ Eligible # {}
    /\ invoked[1].kind = "static"
    /\ invoked[1].info.exists

\* the static side found an asset for the request
StaticAssetExists == invoked # <<>> /\ invoked[1].kind = "static" /\ invoked[1].info.exists

NoMatch == request # NoRequest /\ ~StaticClaimed /\ Eligible = {}

\* every status of the Response was sent by the invoked callback
OnlyUserSent ==
    /\ response.committed
    /\ response.sent # <<>>
    /\ \A k \in 1..Len(response.sent) : response.sent[k].by = "user"

C10_MustRespond ==
    RouteInvoked =>
        IF invoked[1].act \in {"send", "beginChunked", "sendStatic", "sendError", "redirect"}
        THEN OnlyUserSent
        ELSE response.sent = <<Sent("server", "sendError", 500)>>

\* a route handler returned without a response and the 500 was sent
C10_Witness ==
    /\ RouteInvoked
    /\ invoked[1].act = "none"
    /\ response.committed
    /\ response.lastStatusCode = 500

\* the resolver was asked for a path and answered
Resolved == probe.kind = "static" /\ result # NoProbe

\* the names under which the source of the probe holds entries: the keys of
\* a memory table, the files and directories of a file system without the
\* base path "/w"
SourceNames ==
    IF probe.entry.type = "StaticMem"
    THEN {probe.entry.memPaths[i] : i \in 1..Len(probe.entry.memPaths)}
    ELSE {SubSeq(f, 3, Len(f)) : f \in probe.entry.fs.files \cup probe.entry.fs.dirs}

\* the name under which the resolver reports an entry of the source
ReportedAs(name) ==
    IF probe.entry.type = "StaticMem" THEN name ELSE <<"/", "w">> \o name

\* the file system has a directory under the name
IsDirectory(name) ==
    probe.entry.type = "StaticFS" /\ <<"/", "w">> \o name \in probe.entry.fs.dirs

AsksGz == EndsWith(probe.relPath, <<".", "g", "z">>)

GzName == probe.relPath \o <<".", "g", "z">>

\* C11: for a path P not ending in ".gz", in both backends: if an entry
\* P.gz exists it is selected with exists, isGzipped and logicalPath = P,
\* also when plain P exists; plain P is selected, with isGzipped false,
\* if P.gz is absent and P exists as a file or key, and only if P.gz is
\* absent and P exists.
C11_GzipNegotiation ==
    (Resolved /\ ~AsksGz) =>
        /\ GzName \in SourceNames =>
               /\ result.info.exists
               /\ result.info.isGzipped
               /\ result.info.fsPath = ReportedAs(GzName)
               /\ result.info.logicalPath = probe.relPath
        /\ (GzName \notin SourceNames /\ probe.relPath \in SourceNames
                /\ ~IsDirectory(probe.relPath)) =>
               /\ result.info.exists
               /\ ~result.info.isGzipped
               /\ result.info.fsPath = ReportedAs(probe.relPath)
               /\ result.info.logicalPath = probe.relPath
        /\ (result.info.exists /\ result.info.fsPath = ReportedAs(probe.relPath)) =>
               /\ ~result.info.isGzipped
               /\ GzName \notin SourceNames
               /\ probe.relPath \in SourceNames

\* both P and P.gz exist and the gzip entry was selected
C11_Witness ==
    /\ Resolved
    /\ ~AsksGz
    /\ GzName \in SourceNames
    /\ probe.relPath \in SourceNames
    /\ result.info.exists
    /\ result.info.isGzipped

\* C12: for a path that itself ends in ".gz", in both backends, the
\* resolver answers exists exactly when the source holds an entry of that
\* very name, whatever else the source holds.
C12_Original ==
    (Resolved /\ AsksGz) => (result.info.exists <=> probe.relPath \in SourceNames)

\* the path with a trailing slash
AsDirectory == IF EndsWith(probe.relPath, <<"/">>) THEN probe.relPath ELSE probe.relPath \o <<"/">>

\* the path denotes a directory: the plain entry the file system resolves
\* is a directory; the memory table, which has no keys for directories, has
\* no entry for the path itself and the path ends in a slash or is the
\* directory prefix of a key
DenotesDirectory ==
    /\ ~AsksGz
    /\ GzName \notin SourceNames
    /\ IF probe.entry.type = "StaticFS"
       THEN IsDirectory(probe.relPath)
       ELSE /\ probe.relPath \notin SourceNames
            /\ \/ EndsWith(probe.relPath, <<"/">>)
               \/ \E name \in SourceNames : StartsWith(name, AsDirectory)

\* the index entries of the directory, in probing order
IndexNames ==
    << AsDirectory \o <<"i", "n", "d", "e", "x", ".", "h", "t", "m", "l", ".", "g", "z">>,
       AsDirectory \o <<"i", "n", "d", "e", "x", ".", "h", "t", "m", "l">>,
       AsDirectory \o <<"i", "n", "d", "e", "x", ".", "h", "t", "m", ".", "g", "z">>,
       AsDirectory \o <<"i", "n", "d", "e", "x", ".", "h", "t", "m">> >>

\* the k-th index entry is the first that the source holds
FirstHeld(k) == IndexNames[k] \in SourceNames /\ \A j \in 1..(k - 1) : IndexNames[j] \notin SourceNames

\* C13: when the path denotes a directory D, the first of D/index.html.gz,
\* D/index.html, D/index.htm.gz, D/index.htm that exists is selected, with
\* logicalPath the index name without ".gz" and isGzipped telling whether
\* the gzip variant was taken; if none exists the answer is exists = FALSE.
C13_DirectoryIndex ==
    (Resolved /\ DenotesDirectory) =>
        /\ \A k \in 1..4 :
               FirstHeld(k) =>
                   /\ result.info.exists
                   /\ result.info.fsPath = ReportedAs(IndexNames[k])
                   /\ result.info.isGzipped = (k \in {1, 3})
                   /\ result.info.logicalPath = IndexNames[IF k \in {1, 3} THEN k + 1 ELSE k]
        /\ (\A k \in 1..4 : IndexNames[k] \notin SourceNames) => ~result.info.exists

\* a directory holding index.html and index.htm.gz resolved to index.html
C13_Witness ==
    /\ Resolved
    /\ DenotesDirectory
    /\ FirstHeld(2)
    /\ IndexNames[3] \in SourceNames
    /\ result.info.exists
    /\ result.info.fsPath = ReportedAs(IndexNames[2])

\* C14: the resolution of a claimed GET request has a definite exists
\* flag; when the static handler returns without a response, a missing
\* asset is answered with exactly a 404 and an existing asset, its
\* streaming succeeding, with exactly the 200 of sendStatic.
C14_MissingIs404 ==
    [][\A rawUri \in Uris, streamOk \in BOOLEAN :
           (Dispatch("HTTP_GET", rawUri, "none", streamOk) /\ StaticClaimers(rawUri) # {}) =>
               /\ response'.staticInfo.exists \in BOOLEAN
               /\ invoked'[1].info = response'.staticInfo
               /\ IF response'.staticInfo.exists
                  THEN streamOk => response'.sent = <<Sent("server", "sendStatic", 200)>>
                  ELSE response'.sent = <<Sent("server", "sendError", 404)>>]_vars

\* a silent static handler was given a missing asset and the 404 was sent
C14_Witness ==
    /\ request.method = "HTTP_GET"
    /\ invoked # <<>>
    /\ invoked[1].kind = "static"
    /\ invoked[1].act = "none"
    /\ ~response.staticInfo.exists
    /\ response.sent = <<Sent("server", "sendError", 404)>>

\* a render was made
Rendered == probe.kind = "render" /\ result # NoProbe

\* a render that returned true
RenderedOk == Rendered /\ result.r.ok

RECURSIVE FlattenRange(_, _, _)
FlattenRange(chunks, lo, hi) ==
    IF lo > hi THEN <<>>
    ELSE IF lo = hi THEN chunks[lo]
         ELSE FlattenRange(chunks, lo, (lo + hi) \div 2)
                  \o FlattenRange(chunks, (lo + hi) \div 2 + 1, hi)

Flatten(chunks) == FlattenRange(chunks, 1, Len(chunks))

\* what the httpd was given
Output == Flatten(result.r.writes)

\* the output apart from the head snippet, which the head injection puts
\* into the text of the document wherever its tag closes
OutputApartFromSnippet ==
    IF result.r.snippetAt = <<>>
    THEN Output
    ELSE SubSeq(Output, 1, result.r.snippetAt[1])
             \o SubSeq(Output, result.r.snippetAt[1] + Len(probe.headSnippet) + 1, Len(Output))

\* text without an opening brace
Plain(text) == \A i \in 1..Len(text) : text[i] # "{"

\* the text between the braces is the key "k", possibly with blanks around it
IsKey(raw) ==
    \E i, j \in 0..Len(raw) :
        /\ raw = [n \in 1..i |-> " "] \o <<"k">> \o [n \in 1..j |-> " "]

\* the entity of a character, the character itself if it has none
Entities ==
    [c \in {"&", "<", ">", "\"", "'"} |->
        CASE c = "&" -> <<"&", "a", "m", "p", ";">>
          [] c = "<" -> <<"&", "l", "t", ";">>
          [] c = ">" -> <<"&", "g", "t", ";">>
          [] c = "\"" -> <<"&", "q", "u", "o", "t", ";">>
          [] c = "'" -> <<"&", "#", "3", "9", ";">>]

RECURSIVE Escaped(_)
Escaped(text) ==
    IF text = <<>> THEN <<>>
    ELSE IF Len(text) = 1
         THEN (IF text[1] \in DOMAIN Entities THEN Entities[text[1]] ELSE text)
         ELSE Escaped(SubSeq(text, 1, Len(text) \div 2))
                  \o Escaped(SubSeq(text, Len(text) \div 2 + 1, Len(text)))

\* the document is plain text around one double-brace placeholder of the key
DoubleToken ==
    /\ probe.templateActive
    /\ Plain(probe.pre) /\ Plain(probe.post)
    /\ probe.open = 2 /\ probe.close >= 2
    /\ IsKey(probe.raw)

\* C15: a {{key}} placeholder whose trimmed key the resolver handles is
\* replaced by the value with & < > " ' turned into their entities and every
\* other character unchanged, the text around it being unchanged (the head
\* snippet apart, which never lands inside the value).
C15_EscapedSubstitution ==
    (RenderedOk /\ DoubleToken) =>
        /\ OutputApartFromSnippet =
               probe.pre \o Escaped(probe.value) \o Braces("}", probe.close - 2) \o probe.post
        /\ \A k \in 1..Len(result.r.snippetAt) :
               \/ result.r.snippetAt[k] <= Len(probe.pre)
               \/ result.r.snippetAt[k] >= Len(probe.pre) + Len(Escaped(probe.value))

\* "<HeAd {{ k }}>" with the value "<b>'"&" and a snippet
C15_Witness ==
    /\ RenderedOk
    /\ DoubleToken
    /\ probe.value = <<"<", "b", ">", "'", "\"", "&">>
    /\ probe.raw = <<" ", "k", " ">>
    /\ probe.post = <<">">>
    /\ result.r.snippetAt # <<>>

\* text occurs in whole, as consecutive characters of whole
Contains(whole, text) ==
    \E i \in 0..(Len(whole) - Len(text)) : SubSeq(whole, i + 1, i + Len(text)) = text

\* the document is plain text around one triple-brace placeholder of the key
TripleToken ==
    /\ probe.templateActive
    /\ Plain(probe.pre) /\ Plain(probe.post)
    /\ probe.open = 3 /\ probe.close >= 3
    /\ IsKey(probe.raw)

\* a triple-brace placeholder followed by two closing braces only
TripleOpenDoubleClosed ==
    /\ probe.templateActive
    /\ Plain(probe.pre) /\ Plain(probe.post)
    /\ probe.open = 3 /\ probe.close = 2
    /\ IsKey(probe.raw)
    /\ (probe.post = <<>> \/ probe.post[1] # "}")

\* C16 as stated: the output contains the value of a handled triple-brace
\* placeholder byte for byte.
C16_Original ==
    (RenderedOk /\ TripleToken) => Contains(Output, probe.value)

\* C16: a {{{key}}} placeholder whose trimmed key the resolver handles is
\* replaced by the value, character for character, except that the head
\* snippet is put after the ">" of a head tag that closes inside the value;
\* a third opening brace directly after the second makes the placeholder a
\* triple one, which two closing braces do not close.
C16_RawPassthrough ==
    /\ (RenderedOk /\ TripleToken) =>
           OutputApartFromSnippet =
               probe.pre \o probe.value \o Braces("}", probe.close - 3) \o probe.post
    /\ (RenderedOk /\ TripleOpenDoubleClosed) =>
           OutputApartFromSnippet = InputOf(probe)

\* "{{{k}}}" with the value "<b>'"&"
C16_Witness ==
    /\ RenderedOk
    /\ TripleToken
    /\ probe.value = <<"<", "b", ">", "'", "\"", "&">>
    /\ probe.pre = <<"a">>
    /\ Output = <<"a", "<", "b", ">", "'", "\"", "&">> \o Braces("}", probe.close - 3) \o probe.post

\* the document is plain text around one complete placeholder that the
\* resolver does not handle, or whose key is empty
UnresolvedToken ==
    /\ probe.templateActive
    /\ Plain(probe.pre) /\ Plain(probe.post)
    /\ probe.open \in {2, 3} /\ probe.close >= probe.open
    /\ ~IsKey(probe.raw)

\* C17 as stated: the output contains the unresolved token unchanged.
C17_Original ==
    (RenderedOk /\ UnresolvedToken) =>
        Contains(Output, Braces("{", probe.open) \o probe.raw \o Braces("}", probe.open))

\* C17: a complete placeholder that the resolver does not handle, or whose
\* trimmed key is empty, is put out as it was read: its opening braces, its
\* raw text with the blanks and inner closing braces, its closing braces,
\* except that the head snippet is put after the ">" of a head tag that
\* closes inside the token.
C17_UnresolvedKept ==
    (RenderedOk /\ UnresolvedToken) => OutputApartFromSnippet = InputOf(probe)

\* "{{{u}u}}}" was put out unchanged
C17_Witness ==
    /\ RenderedOk
    /\ UnresolvedToken
    /\ probe.open = 3
    /\ probe.raw = <<"u", "}", "u">>
    /\ Output = InputOf(probe)

\* the document ends inside an opening brace run or a placeholder
Unterminated ==
    /\ probe.templateActive
    /\ Plain(probe.pre)
    /\ probe.post = <<>>
    /\ \/ probe.open = 1 /\ probe.raw = <<>> /\ probe.close = 0
       \/ probe.open \in {2, 3} /\ probe.close < probe.open

\* C18 as stated: the output ends with exactly the unterminated input text.
C18_Original ==
    (RenderedOk /\ Unterminated) =>
        EndsWith(Output, Braces("{", probe.open) \o probe.raw \o Braces("}", probe.close))

\* C18: when the input ends in OpenBrace or Placeholder, the braces read,
\* the raw text and the pending closing braces are put out, so that the
\* output ends with the unterminated text, except that the head snippet is
\* put after the ">" of a head tag that closes inside that text.
C18_NoTruncation ==
    (RenderedOk /\ Unterminated) => OutputApartFromSnippet = InputOf(probe)

\* "a{{{ k }}" was put out whole
C18_Witness ==
    /\ RenderedOk
    /\ Unterminated
    /\ probe.pre = <<"a">>
    /\ probe.open = 3
    /\ probe.raw = <<" ", "k", " ">>
    /\ probe.close = 2
    /\ Output = InputOf(probe)

\* the characters given to emitChar, in order
Emitted == result.r.emitted

\* "<head" in any case starts at place p of text
IsHeadAt(text, p) ==
    /\ p + 4 <= Len(text)
    /\ text[p] = "<"
    /\ text[p + 1] \in {"h", "H"}
    /\ text[p + 2] \in {"e", "E"}
    /\ text[p + 3] \in {"a", "A"}
    /\ text[p + 4] \in {"d", "D"}

\* the character after "<head" that makes it a tag
IsBoundary(c) == c \in {">", "/", " ", "\t", "\n", "\r", "\f"}

\* every "<head" of the text that a boundary character follows
HeadTags(text) ==
    {p \in 1..Len(text) : IsHeadAt(text, p) /\ p + 5 <= Len(text) /\ IsBoundary(text[p + 5])}

\* a "<head" that does not start on the character directly after another
\* such "<head"
RECURSIVE IsScannedHead(_, _)
IsScannedHead(text, p) ==
    /\ IsHeadAt(text, p)
    /\ ~(p > 5 /\ IsScannedHead(text, p - 5))

ScannedHeadTags(text) == {p \in HeadTags(text) : IsScannedHead(text, p)}

Least(S) == CHOOSE x \in S : \A y \in S : x <= y

\* the place of the ">" that closes the first of the tags, 0 if there is none
ClosingPlace(text, tags) ==
    IF tags = {} \/ {q \in (Least(tags) + 5)..Len(text) : text[q] = ">"} = {}
    THEN 0
    ELSE Least({q \in (Least(tags) + 5)..Len(text) : text[q] = ">"})

\* the text with the snippet after the given place, the text itself for 0
WithSnippetAfter(text, place, snippet) ==
    IF place = 0
    THEN text
    ELSE SubSeq(text, 1, place) \o snippet \o SubSeq(text, place + 1, Len(text))

DataWrites == SelectSeq(result.r.writes, LAMBDA w : w # <<>>)

\* C20: every data chunk written is non-empty and at most kChunkLimit long,
\* every data chunk but the last is exactly kChunkLimit long, nothing emitted
\* is lost, and a render that returns true ends with one zero-length write,
\* its only one and its last.
C20_Chunking ==
    Rendered =>
        /\ \A i \in 1..Len(result.r.writes) : Len(result.r.writes[i]) <= kChunkLimit
        /\ \A i \in 1..(Len(DataWrites) - 1) : Len(DataWrites[i]) = kChunkLimit
        /\ \A i \in 1..(Len(result.r.writes) - 1) : result.r.writes[i] # <<>>
        /\ result.r.ok =>
               /\ result.r.writes # <<>>
               /\ result.r.writes[Len(result.r.writes)] = <<>>
               /\ Len(Output) = Len(Emitted) + (IF result.r.snippetAt = <<>> THEN 0
                                                 ELSE Len(probe.headSnippet))
        /\ ~result.r.ok =>
               \A i \in 1..Len(result.r.writes) : result.r.writes[i] # <<>>

\* two full chunks, a shorter one and the terminator
C20_Witness ==
    /\ RenderedOk
    /\ Len(result.r.writes) = 4
    /\ Len(result.r.writes[1]) = kChunkLimit
    /\ Len(result.r.writes[2]) = kChunkLimit
    /\ Len(result.r.writes[3]) \in 1..(kChunkLimit - 1)
    /\ result.r.writes[4] = <<>>

\* the configuration of the render made
RenderCfg ==
    [templateActive |-> probe.templateActive, headSnippet |-> probe.headSnippet,
     value |-> probe.value, failAt |-> 0]

\* both renders succeed and write the characters of out; the second writes
\* them as one chunk
SameOutput(one, big, out) ==
    /\ one.ok /\ big.ok
    /\ Flatten(one.writes) = out
    /\ \A i \in 1..(Len(one.writes) - 1) : Len(one.writes[i]) = 1
    /\ Flatten(big.writes) = out
    /\ Len(big.writes) <= 2

\* C21: the characters a successful render writes are those the same render
\* writes with a buffer limit of 1 and with a limit above the length of the
\* whole output.
C21_BudgetInvariance ==
    RenderedOk =>
        SameOutput(streamHtmlWithLimit(InputOf(probe), RenderCfg, 1),
                   streamHtmlWithLimit(InputOf(probe), RenderCfg, Len(Output) + 1),
                   Output)

\* "<he" ends the first chunk, "ad>", the snippet and the value follow
C21_Witness ==
    /\ RenderedOk
    /\ probe.headSnippet # <<>>
    /\ probe.open = 2 /\ probe.close = 2 /\ probe.raw = <<"k">>
    /\ Len(result.r.writes) = 3
    /\ Len(result.r.writes[1]) = kChunkLimit
    /\ SubSeq(result.r.writes[1], kChunkLimit - 2, kChunkLimit) = <<"<", "h", "e">>
    /\ SubSeq(result.r.writes[2], 1, 3) = <<"a", "d", ">">>
    /\ result.r.snippetAt = <<kChunkLimit + 3>>

\* a render that returned false
RenderFailed == Rendered /\ ~result.r.ok

\* C22: once a chunk write has failed the render reads no further
\* character, calls the template handler no more, and calls
\* httpd_resp_send_chunk no more, neither for data nor for the terminator.
C22_AbortOnWriteFailure ==
    RenderFailed =>
        /\ result.r.attempts = probe.failAt
        /\ Len(result.r.writes) = probe.failAt - 1
        /\ \A i \in 1..Len(result.r.writes) : result.r.writes[i] # <<>>
        /\ result.r.consumed = result.r.consumedAtFailure
        /\ result.r.handlerCalls = result.r.handlerCallsAtFailure

\* the first write failed with the placeholder still unread
C22_Witness ==
    /\ RenderFailed
    /\ probe.failAt = 1
    /\ probe.open = 2 /\ probe.close = 2 /\ probe.raw = <<"k">>
    /\ result.r.consumed = kChunkLimit
    /\ result.r.consumed < Len(InputOf(probe))
    /\ result.r.handlerCalls = 0
    /\ result.r.writes = <<>>

\* a document was sent through Response::send or Response::sendStatic
SentRendered == probe.kind = "render" /\ result # NoProbe /\ result.kind \in {"send", "sendStatic"}

\* C23: when a write fails after a data chunk of the response has been
\* written, the caller sends no 500 and no other status after the one it
\* began with.
C23_Original ==
    (SentRendered /\ ~result.r.ok /\ Len(result.r.writes) >= 1) =>
        /\ Len(result.res.sent) = 1
        /\ result.res.lastStatusCode = 200

\* C25: a dispatch starts from a fresh Request and Response and changes no
\* registration, and its return leaves the fresh Request and Response and
\* the same registrations, so that the state after a request, whether it
\* ended in 400, 404, 500, a failed stream or a normal answer, is the state
\* before it.
C25_StatelessDispatch ==
    [][/\ (Idle /\ ~Idle') =>
              /\ response = NewResponse /\ invoked = <<>>
              /\ UNCHANGED serverVars
       /\ (~Idle /\ Idle') =>
              /\ response' = NewResponse /\ invoked' = <<>>
              /\ UNCHANGED serverVars]_vars

\* a dispatch ended in an error with a route and a static registration made
C25_Witness ==
    /\ request # NoRequest
    /\ response.lastStatusCode \in {400, 404, 500}
    /\ dynamicRoutes # <<>>
    /\ handlers # <<>>

\* the places of the segments of one type
SegmentsOfType(segments, t) == {j \in 1..Len(segments) : segments[j].type = t}

\* C26: whatever Server::on calls were made, every route of the table has at
\* most one Wildcard segment, which is its last segment, no Param or
\* Wildcard with an empty name, and the score 3 * #Literal + 2 * #Param +
\* #Wildcard.
C26_RouteTableInvariant ==
    \A i \in 1..Len(dynamicRoutes) :
        /\ Cardinality(SegmentsOfType(dynamicRoutes[i].segments, "Wildcard")) <= 1
        /\ \A j \in SegmentsOfType(dynamicRoutes[i].segments, "Wildcard") :
               j = Len(dynamicRoutes[i].segments)
        /\ \A j \in 1..Len(dynamicRoutes[i].segments) :
               /\ dynamicRoutes[i].segments[j].type \in {"Literal", "Param", "Wildcard"}
               /\ dynamicRoutes[i].segments[j].type # "Literal" =>
                      dynamicRoutes[i].segments[j].value # <<>>
        /\ dynamicRoutes[i].score =
               3 * Cardinality(SegmentsOfType(dynamicRoutes[i].segments, "Literal"))
               + 2 * Cardinality(SegmentsOfType(dynamicRoutes[i].segments, "Param"))
               + Cardinality(SegmentsOfType(dynamicRoutes[i].segments, "Wildcard"))

\* of two Server::on calls one was rejected, and the route of the other has
\* a Literal, a Param and a Wildcard segment
C26_Witness ==
    /\ onCalls = 2
    /\ Len(dynamicRoutes) = 1
    /\ Len(dynamicRoutes[1].segments) = 3
    /\ dynamicRoutes[1].segments[1].type = "Literal"
    /\ dynamicRoutes[1].segments[2].type = "Param"
    /\ dynamicRoutes[1].segments[3].type = "Wildcard"
    /\ dynamicRoutes[1].score = 6

\* a compiled pattern was matched against a path
MatchedAny == probe.kind = "matchAny" /\ result # NoProbe /\ result.parsed.ok

\* every Literal among the first k segments equals the path segment at its
\* place
LiteralsAgree(segments, path, k) ==
    \A i \in 1..k : segments[i].type = "Literal" => path[i] = segments[i].value

HasWildcard(segments) ==
    segments # <<>> /\ segments[Len(segments)].type = "Wildcard"

\* C27: a route without Wildcard matches exactly the paths of as many
\* segments whose segments equal its Literals; a route of k segments and a
\* trailing Wildcard matches exactly the paths of at least k segments whose
\* first k do, the Wildcard binding the remainder joined by "/"; "/" matches
\* the root path only.
C27_MatchCharacterisation ==
    MatchedAny =>
        /\ ~HasWildcard(result.parsed.segments) =>
               (result.match.ok <=>
                    /\ Len(probe.path) = Len(result.parsed.segments)
                    /\ LiteralsAgree(result.parsed.segments, probe.path,
                                     Len(result.parsed.segments)))
        /\ HasWildcard(result.parsed.segments) =>
               /\ result.match.ok <=>
                      /\ Len(probe.path) >= Len(result.parsed.segments) - 1
                      /\ LiteralsAgree(result.parsed.segments, probe.path,
                                       Len(result.parsed.segments) - 1)
               /\ result.match.ok =>
                      result.match.params[Len(result.match.params)][2] =
                          Joined(SubSeq(probe.path, Len(result.parsed.segments), Len(probe.path)))
        /\ probe.pattern = <<"/">> => (result.match.ok <=> probe.path = <<>>)

\* "/a/:x" against the longer path a/b/a, which it does not match
C27_Witness ==
    /\ MatchedAny
    /\ probe.pattern = <<"/", "a", "/", ":", "x">>
    /\ probe.path = << <<"a">>, <<"b">>, <<"a">> >>
    /\ ~result.match.ok

\* the memory table holds a key, other than the path itself, under the path
\* taken as a directory
HasChildKey == \E name \in SourceNames \ {probe.relPath} : StartsWith(name, AsDirectory)

\* the resolver answered as the index probe of the directory has it
IndexOutcome ==
    /\ \A k \in 1..4 :
           FirstHeld(k) =>
               /\ result.info.exists
               /\ result.info.fsPath = IndexNames[k]
               /\ result.info.logicalPath = IndexNames[IF k \in {1, 3} THEN k + 1 ELSE k]
    /\ (\A k \in 1..4 : IndexNames[k] \notin SourceNames) => ~result.info.exists

\* C28 as stated: in the memory backend a plain entry P with another key
\* under P/ is treated as a directory, the index files being probed instead
\* of the entry being served.
C28_Original ==
    (Resolved /\ probe.entry.type = "StaticMem" /\ ~AsksGz
         /\ probe.relPath \in SourceNames /\ GzName \notin SourceNames /\ HasChildKey) =>
        IndexOutcome

\* C28: in the memory backend a path P not ending in ".gz", for which the
\* table holds neither the key P nor the key P.gz, is treated as a
\* directory whenever a key starts with P/, and the index files under P/
\* are probed, gzip variant first; if the table holds the key P and not
\* P.gz, the entry P itself is served, whatever keys start with P/.
C28_MemoryDirectoryHeuristic ==
    (Resolved /\ probe.entry.type = "StaticMem" /\ ~AsksGz /\ GzName \notin SourceNames
         /\ HasChildKey) =>
        /\ probe.relPath \notin SourceNames => IndexOutcome
        /\ probe.relPath \in SourceNames =>
               /\ result.info.exists
               /\ ~result.info.isGzipped
               /\ result.info.fsPath = probe.relPath
               /\ result.info.logicalPath = probe.relPath

\* "/d" is no key, "/d/index.htm.gz" and "/d/x" are, and the index was
\* selected
C28_Witness ==
    /\ Resolved
    /\ probe.entry.type = "StaticMem"
    /\ probe.relPath = <<"/", "d">>
    /\ SourceNames = {IndexNames[3], <<"/", "d", "/", "x">>}
    /\ result.info.exists
    /\ result.info.isGzipped
    /\ result.info.fsPath = IndexNames[3]
    /\ result.info.logicalPath = IndexNames[4]

\* a document without braces rendered with a head snippet
HeadRendered ==
    /\ RenderedOk
    /\ probe.headSnippet # <<>>
    /\ probe.open = 0 /\ probe.raw = <<>> /\ probe.close = 0
    /\ Plain(probe.post)

HeadTagText == <<"<", "h", "e", "a", "d", ">">>

\* C29: "<head" is recognised in any case ("<HEAD>", "<Head>"), also
\* directly after a partial match ("<<head>", "<he<head>") and after a tag
\* that only begins like it ("<header><head>"), when ">", "/" or white space
\* follows it, and the snippet is put after the next ">" ("<head>",
\* "<head/>", "<head lang="en">"); a tag like "<header>" gets no snippet,
\* and a "<head>" after it does.
C29_HeadTagRecognition ==
    HeadRendered =>
        /\ probe.pre \in HeadDocs =>
               Output = probe.pre \o probe.headSnippet \o probe.post
        /\ probe.pre \in NotHeadDocs =>
               Output = probe.pre \o probe.post
                            \o (IF probe.post = HeadTagText THEN probe.headSnippet ELSE <<>>)

\* "<he<HEAD lang="en">x" gets the snippet after its ">"
C29_Witness ==
    /\ HeadRendered
    /\ probe.pre = <<"<", "h", "e", "<", "H", "E", "A", "D", " ", "l", "a", "n", "g",
                    "=", "\"", "e", "n", "\"", ">">>
    /\ probe.post = <<"x">>
    /\ Output = probe.pre \o probe.headSnippet \o <<"x">>

\* what the template layer emits for a document of plain text around one
\* run of braces: the value for a closed placeholder of the key "k", escaped
\* unless the braces are triple, and the characters of the document
\* otherwise
TemplateOutput(p) ==
    IF p.templateActive /\ p.open = 2 /\ p.close >= 2 /\ IsKey(p.raw)
    THEN p.pre \o Escaped(p.value) \o Braces("}", p.close - 2) \o p.post
    ELSE IF p.templateActive /\ p.open = 3 /\ p.close >= 3 /\ IsKey(p.raw)
         THEN p.pre \o p.value \o Braces("}", p.close - 3) \o p.post
         ELSE InputOf(p)

\* the head injection applied to a text
HeadInjected(text, snippet) ==
    IF snippet = <<>>
    THEN text
    ELSE WithSnippetAfter(text, ClosingPlace(text, ScannedHeadTags(text)), snippet)

\* plain text around one run of braces, the text after it not going on with
\* the closing braces
OnePlaceholder(p) ==
    /\ Plain(p.pre) /\ Plain(p.post)
    /\ (p.post = <<>> \/ p.post[1] # "}")

\* C30: every character the template layer emits (text passed through, the
\* token of an unresolved or unterminated placeholder, the value of a
\* resolved one) goes through the head injection in the order of the
\* output: the output is the head injection applied to what the template
\* layer emits, so that a head tag in the value of a triple-brace
\* placeholder, or one that begins in the text and ends in the value, gets
\* the snippet.
C30_TemplateThenHeadInjection ==
    (RenderedOk /\ OnePlaceholder(probe)) =>
        /\ Emitted = TemplateOutput(probe)
        /\ Output = HeadInjected(TemplateOutput(probe), probe.headSnippet)

\* "a{{{k}}}" with the value "<head>x", and "<HeAd {{{k}}}" with the value
\* "<b>'"&": the snippet follows the ">" of the value
C30_Witness ==
    /\ RenderedOk
    /\ probe.templateActive
    /\ probe.headSnippet # <<>>
    /\ probe.open = 3 /\ probe.close = 3 /\ probe.raw = <<"k">> /\ probe.post = <<>>
    /\ \/ /\ probe.pre = <<"a">>
          /\ probe.value = <<"<", "h", "e", "a", "d", ">", "x">>
          /\ Output = <<"a", "<", "h", "e", "a", "d", ">">> \o probe.headSnippet \o <<"x">>
       \/ /\ probe.pre = <<"<", "H", "e", "A", "d", " ">>
          /\ probe.value = <<"<", "b", ">", "'", "\"", "&">>
          /\ Output = <<"<", "H", "e", "A", "d", " ", "<", "b", ">">> \o probe.headSnippet
                          \o <<"'", "\"", "&">>

\* the dispatch of worker w has reached its return
Done(w) == workers # NoWorkers /\ workers[w].pc = "done"

\* what the dispatch of worker w does running alone
Alone(l) == DispatchResult(l.method, l.rawUri, l.act, l.streamOk)

\* C24: with registration finished and no lock taken, whatever the
\* interleaving of the dispatches on the workers, each dispatch ends with
\* the handler, the path params, the static descriptor and the answer it has
\* running alone, its render hands the httpd what the render of the document
\* alone does, and a step of one dispatch changes the locals of no other
\* dispatch and nothing of the server.
C24_ConcurrentDispatch ==
    /\ [](\A w \in DOMAIN workers :
              Done(w) =>
                  /\ workers[w].request = Alone(workers[w]).request
                  /\ workers[w].response = Alone(workers[w]).response
                  /\ workers[w].invoked = Alone(workers[w]).invoked
                  /\ workers[w].rendered =>
                         workers[w].r = streamHtmlFromSource(StaticDoc, WorkerCfg(workers[w])))
    /\ [][/\ \E w \in DOMAIN workers :
                 \A v \in DOMAIN workers \ {w} : workers'[v] = workers[v]
          /\ UNCHANGED serverVars]_vars

\* the dispatch of "/a/b" has bound x = b and rendered its document while
\* the dispatch of "/a/c" is in the middle of the route scan, or of its
\* render
C24_Witness ==
    /\ workers # NoWorkers
    /\ \E w, v \in DOMAIN workers :
           /\ w # v
           /\ Done(w)
           /\ workers[w].rawUri = <<"/", "a", "/", "b">>
           /\ \/ /\ workers[w].request.params # <<>>
                 /\ workers[v].pc = "scan"
                 /\ workers[v].i > 1
                 /\ workers[v].rawUri = <<"/", "a", "/", "c">>
                 /\ workers[v].best.bestParams # <<>>
              \/ /\ workers[w].rendered
                 /\ workers[w].r.writes # <<>>
                 /\ workers[v].pc = "render"
                 /\ workers[v].pos > 0

\* the decision of a dispatch: the callbacks it invoked (static
\* registration or route, with the params bound) and, when it invoked none,
\* the status it answered with
Decision(inv, res) ==
    [callbacks |-> [k \in 1..Len(inv) |->
                       [kind |-> inv[k].kind, id |-> inv[k].id, params |-> inv[k].params]],
     status |-> IF inv = <<>> THEN res.lastStatusCode ELSE 0]

\* the decision of the dispatch of a request
DecisionFor(method, rawUri) ==
    Decision(DispatchResult(method, rawUri, "none", TRUE).invoked,
             DispatchResult(method, rawUri, "none", TRUE).response)

\* C31 as stated: a request is dispatched like the request of the same
\* method whose URI is the part before the first "?": the same static
\* registration, or the same route with the same params, or the same error
\* status.
C31_Original ==
    ~Idle => Decision(invoked, response) = DecisionFor(request.method, BeforeQuery(request.uri))

\* request URIs and the segments of their paths, decoded
DecodedExamples ==
    { [uri |-> <<"/", "u", "s", "%", "6", "5", "r", "s", "/", "4", "2">>,
       segments |-> << <<"u", "s", "e", "r", "s">>, <<"4", "2">> >>],
      [uri |-> <<"/", "u", "s", "e", "r", "s", "/", "4", "+", "2">>,
       segments |-> << <<"u", "s", "e", "r", "s">>, <<"4", " ", "2">> >>],
      [uri |-> <<"/", "a", "%", "2", "F", "b">>,
       segments |-> << <<"a">>, <<"b">> >>],
      [uri |-> <<"/", "a", "/", "/", "b", "/">>,
       segments |-> << <<"a">>, <<"b">> >>],
      [uri |-> <<"/", "s", "t", "a", "t", "i", "c", "/", "%", "2", "e", "%", "2", "e", "/", "x">>,
       segments |-> << <<"s", "t", "a", "t", "i", "c">>, <<".", ".">>, <<"x">> >>],
      [uri |-> <<"/", "a", "/", "b", "?", "q">>,
       segments |-> << <<"a">>, <<"b">> >>] }

\* the segments of a normalised path: the runs of characters between its
\* slashes
Runs(path) ==
    LET cuts == {i \in 1..Len(path) : path[i] = "/"} \cup {Len(path) + 1}
        starts == {i \in 1..Len(path) : path[i] # "/" /\ (i = 1 \/ path[i - 1] = "/")}
        end(i) == CHOOSE j \in cuts : j > i /\ \A m \in cuts : m > i => j <= m
        nth[k \in 1..Cardinality(starts)] ==
            CHOOSE i \in starts : Cardinality({j \in starts : j < i}) = k - 1
    IN  [k \in 1..Cardinality(starts) |-> SubSeq(path, nth[k], end(nth[k]) - 1)]

\* the route binds the segments of the path: its Literals equal them, its
\* Params carry them, its Wildcard carries the rest
Binds(route, segs, params) ==
    /\ Matches(route.segments, segs)
    /\ Len(params) = Cardinality({i \in 1..Len(route.segments) : route.segments[i].type # "Literal"})
    /\ \A i \in 1..Len(route.segments) :
           route.segments[i].type = "Param" =>
               \E k \in 1..Len(params) : params[k] = <<route.segments[i].value, segs[i]>>

\* C32: the path is decoded as a whole and then split: the request's path
\* is "/" and the decoded segments joined by "/" ("/us%65rs/42" gives
\* users, 42; "+" gives a blank; "%2F" separates segments; empty segments
\* are dropped), the route a dispatch invokes has its Literals equal to the
\* decoded segments and its Params bound to them, and a request whose raw
\* URI and normalised path the same static registrations claim (every
\* request of another method than GET) is dispatched like its decoded,
\* normalised path ("/a//b/" and "/a%2Fb" like "/a/b").
C32_DecodeThenSplit ==
    ~Idle =>
        /\ \A e \in DecodedExamples :
               request.uri = e.uri =>
                   /\ request.path = <<"/">> \o Joined(e.segments)
                   /\ Runs(request.path) = e.segments
        /\ RouteInvoked =>
               Binds(dynamicRoutes[InvokedRoute], Runs(request.path), invoked[1].params)
        /\ (request.method # "HTTP_GET"
                \/ StaticClaimers(request.uri) = StaticClaimers(request.path)) =>
               Decision(invoked, response) = DecisionFor(request.method, request.path)

\* GET "/us%65rs/42" went to the route "/users/:id" with id = 42
C32_Witness ==
    /\ request.uri = <<"/", "u", "s", "%", "6", "5", "r", "s", "/", "4", "2">>
    /\ RouteInvoked
    /\ dynamicRoutes[InvokedRoute].pattern = <<"/", "u", "s", "e", "r", "s", "/", ":", "i", "d">>
    /\ invoked[1].params = << <<<<"i", "d">>, <<"4", "2">>>> >>

\* the places of the Params and the Wildcard of a route, in segment order
Binders(route) ==
    LET places == {i \in 1..Len(route.segments) : route.segments[i].type # "Literal"}
    IN  [k \in 1..Cardinality(places) |->
            CHOOSE i \in places : Cardinality({j \in places : j < i}) = k - 1]

\* the bindings of a route that matches the segments: one (name, value)
\* pair per Param and Wildcard, in segment order
BindingsOf(route, segs) ==
    [k \in 1..Len(Binders(route)) |->
        << route.segments[Binders(route)[k]].value,
           IF route.segments[Binders(route)[k]].type = "Param"
           THEN segs[Binders(route)[k]]
           ELSE Joined(SubSeq(segs, Binders(route)[k], Len(segs))) >>]

\* C33: the params the invoked route handler sees are the bindings of the
\* selected route and nothing else, one pair per Param or Wildcard in
\* segment order, whatever routes were tried before it; a static handler
\* and the not-found handler see no params.
C33_WinningRouteParams ==
    ~Idle =>
        /\ RouteInvoked =>
               /\ invoked[1].params = BindingsOf(dynamicRoutes[InvokedRoute], Runs(request.path))
               /\ request.params = invoked[1].params
        /\ \A k \in 1..Len(invoked) :
               invoked[k].kind \in {"static", "notFound"} =>
                   invoked[k].params = <<>> /\ request.params = <<>>

\* GET "/a/b/c" after "/:p/:q" bound p and q and failed: the handler of
\* "/a/:x/c", registered later, sees x = b only
C33_Witness ==
    /\ request.uri = <<"/", "a", "/", "b", "/", "c">>
    /\ RouteInvoked
    /\ dynamicRoutes[InvokedRoute].pattern = <<"/", "a", "/", ":", "x", "/", "c">>
    /\ InvokedRoute > 1
    /\ dynamicRoutes[1].pattern = <<"/", ":", "p", "/", ":", "q">>
    /\ invoked[1].params = << <<<<"x">>, <<"b">>>> >>

Reading == probe.kind = "read" /\ result # NoProbe

\* the render of the probe has returned
ReadDone == Reading /\ result.done

\* C35: with a template handler that handles no key and no head snippet,
\* the concatenated output of a render that returns true is the input,
\* character for character, whatever braces the input holds: stray, nested,
\* unbalanced, "}" inside a placeholder, unterminated placeholders.
C35_IdentityRender ==
    (ReadDone /\ result.r.ok /\ probe.templateActive /\ ~probe.handles
         /\ probe.headSnippet = <<>>) =>
        Flatten(result.r.writes) = probe.doc

\* "{{k}k}}": the handler was asked for "k}k", declined, and the output is
\* the input
C35_Witness ==
    /\ ReadDone
    /\ result.r.ok
    /\ probe.templateActive /\ ~probe.handles /\ probe.headSnippet = <<>>
    /\ probe.doc = <<"{", "{", "k", "}", "k", "}", "}">>
    /\ result.r.handlerCalls = 1
    /\ Flatten(result.r.writes) = probe.doc

\* C36: the render reads each character of the input once, in order; the
\* reprocess loop is left after one round or after two, two only for the
\* character that ends a run of opening braces or that is looked at for the
\* third "{"; and the function returns: until it has returned it can read
\* the next character or leave the outer loop, and every step reads the
\* next character or is the return.
C36_RenderTerminates ==
    /\ [](/\ Reading =>
                 /\ result.left
                 /\ result.passes <= 2
                 /\ result.r.consumed = result.pos
                 /\ result.pos <= Len(probe.doc)
          /\ (Reading /\ ~ReadDone) => CanRead \/ AtEnd)
    /\ [][(Reading /\ result' # result) =>
              /\ \/ result'.pos = result.pos + 1 /\ ~result'.done
                 \/ result'.pos = result.pos /\ result'.done
              /\ (result'.pos = result.pos + 1 /\ result'.passes = 2) =>
                     \/ result.r.state = "OpenBrace"
                     \/ result.r.state = "Placeholder" /\ result.r.waitingThird]_vars

\* a character was processed twice, after "{{", and the render went on to
\* its return
C36_Witness ==
    /\ ReadDone
    /\ result.r.ok
    /\ result.passes = 2
    /\ result.pos = Len(probe.doc)
    /\ result.r.consumed = MaxDocLen

----------------------------------------------------------------------------
(* Response::sendStatic with its headers and its body                      *)

\* the entries of kMimeTable for the extensions of the modelled assets, in
\* the order of the table
kMimeTable ==
    << [extension |-> <<".", "c", "s", "s">>, type |-> <<"t", "e", "x", "t", "/", "c", "s", "s">>],
       [extension |-> <<".", "h", "t", "m">>, type |-> <<"t", "e", "x", "t", "/", "h", "t", "m", "l">>],
       [extension |-> <<".", "h", "t", "m", "l">>, type |-> <<"t", "e", "x", "t", "/", "h", "t", "m", "l">>],
       [extension |-> <<".", "j", "s">>, type |-> <<"a", "p", "p", "l", "i", "c", "a", "t", "i", "o", "n", "/", "j", "a", "v", "a", "s", "c", "r", "i", "p", "t">>],
       [extension |-> <<".", "t", "x", "t">>, type |-> <<"t", "e", "x", "t", "/", "p", "l", "a", "i", "n">>] >>

kOctetStream == <<"a", "p", "p", "l", "i", "c", "a", "t", "i", "o", "n", "/", "o", "c", "t", "e", "t", "-", "s", "t", "r", "e", "a", "m">>

\* String::toLowerCase
toLowerCase(s) == [i \in 1..Len(s) |-> ToLower(s[i])]

\* the type of the first entry of kMimeTable, from the k-th on, whose
\* extension ends the path; <<>> if there is none
RECURSIVE MimeLookup(_, _)
MimeLookup(lower, k) ==
    IF k > Len(kMimeTable) THEN <<>>
    ELSE IF EndsWith(lower, kMimeTable[k].extension) THEN kMimeTable[k].type
    ELSE MimeLookup(lower, k + 1)

determineMimeType(path) ==
    IF path = <<>> THEN kOctetStream
    ELSE IF MimeLookup(toLowerCase(path), 1) # <<>>
         THEN MimeLookup(toLowerCase(path), 1)
    ELSE IF /\ EndsWith(toLowerCase(path), <<".", "g", "z">>)
            /\ MimeLookup(SubSeq(toLowerCase(path), 1, Len(path) - 3), 1) # <<>>
         THEN MimeLookup(SubSeq(toLowerCase(path), 1, Len(path) - 3), 1)
    ELSE kOctetStream

\* String::equalsIgnoreCase("text/html")
isHtmlMime(mime) == toLowerCase(mime) = <<"t", "e", "x", "t", "/", "h", "t", "m", "l">>

\* the path sendStatic takes the MIME type from
LogicalPathOf(info) == IF info.logicalPath = <<>> THEN info.relPath ELSE info.logicalPath

\* htmlEligible that does not look at isGzipped
htmlEligibleAnyEncoding(info) == isHtmlMime(determineMimeType(LogicalPathOf(info)))

htmlEligible(info) == ~info.isGzipped /\ isHtmlMime(determineMimeType(LogicalPathOf(info)))

\* streamFileToClient and streamMemoryToClient of an asset shorter than one
\* chunk of 1024 bytes: [ok, body]; failAt = 1 is the httpd refusing the
\* first chunk
streamToClient(stored, failAt) ==
    IF stored # <<>> /\ failAt = 1
    THEN [ok |-> FALSE, body |-> <<>>]
    ELSE [ok |-> TRUE, body |-> stored]

\* Response::sendStatic of the asset whose stored bytes are stored, with
\* what it hands to the httpd: the Response, the content type, the headers,
\* the body, and how often the template handler was called
sendStaticAsset(res, stored, cfg) ==
    IF res.staticSource = "None" \/ ~res.staticInfo.exists
    THEN [res |-> sendStatic(res, "user", TRUE), type |-> <<>>, headers |-> {},
          body |-> <<>>, handlerCalls |-> 0]
    ELSE LET mime == determineMimeType(LogicalPathOf(res.staticInfo))
             headers == IF res.staticInfo.isGzipped
                        THEN {[name |-> "Content-Encoding", value |-> "gzip"]}
                        ELSE {}
         IN  IF ~(htmlEligible(res.staticInfo) /\ needsProcessing(cfg))
             THEN [res |-> sendStatic(res, "user", streamToClient(stored, cfg.failAt).ok),
                   type |-> mime, headers |-> headers,
                   body |-> streamToClient(stored, cfg.failAt).body,
                   handlerCalls |-> 0]
             ELSE [res |-> sendStatic(res, "user", streamHtmlFromSource(stored, cfg).ok),
                   type |-> mime, headers |-> headers,
                   body |-> Flatten(streamHtmlFromSource(stored, cfg).writes),
                   handlerCalls |-> streamHtmlFromSource(stored, cfg).handlerCalls]

\* the bytes an asset holds: a gzip stream is bytes like any others, and a
\* render that took them for HTML would change "{{k}}" and "<head>"
AssetBytes ==
    { <<>>,
      <<"x">>,
      <<"{", "{", "k", "}", "}">>,
      <<"<", "h", "e", "a", "d", ">">>,
      <<"<", "h", "e", "a", "d", ">", "{", "{", "k", "}", "}">> }

AssetPaths ==
    { <<>>,
      <<"/", "i", "n", "d", "e", "x", ".", "h", "t", "m", "l">>,
      <<"/", "I", "N", "D", "E", "X", ".", "H", "T", "M">>,
      <<"/", "a", "p", "p", ".", "j", "s">>,
      <<"/", "a", ".", "t", "x", "t">>,
      <<"/", "d", "a", "t", "a">>,
      <<"/", "x", ".", "h", "t", "m", "l", ".", "g", "z">> }

\* a descriptor as the resolvers and sendFile leave it: the stored file of
\* a gzip variant is the logical path with ".gz"
AssetInfo(logicalPath, relPath, exists, gz) ==
    [EmptyStaticInfo EXCEPT !.uri = relPath, !.relPath = relPath,
                            !.fsPath = IF gz THEN LogicalPathOf([logicalPath |-> logicalPath,
                                                                 relPath |-> relPath])
                                                  \o <<".", "g", "z">>
                                       ELSE LogicalPathOf([logicalPath |-> logicalPath,
                                                           relPath |-> relPath]),
                            !.exists = exists, !.isGzipped = gz,
                            !.logicalPath = logicalPath]

AssetProbes ==
    [kind : {"asset"}, source : {"None", "FileSystem", "Memory"},
     logicalPath : AssetPaths, relPath : {<<"/", "i", "n", "d", "e", "x", ".", "h", "t", "m", "l">>, <<"/", "a", "p", "p", ".", "j", "s">>},
     exists : BOOLEAN, gz : BOOLEAN, stored : AssetBytes,
     templateActive : BOOLEAN, headSnippet : {<<>>, <<"S">>},
     value : {<<"v">>}, failAt : {0, 1}]

InitAsset ==
    /\ handle = FALSE
    /\ methodHooks = {}
    /\ dynamicRoutes = <<>>
    /\ notFoundHandler = 0
    /\ handlers = <<>>
    /\ onCalls = 0
    /\ request = NoRequest
    /\ response = NewResponse
    /\ invoked = <<>>
    /\ workers = NoWorkers
    /\ result = NoProbe
    /\ probe \in AssetProbes

\* a handler calls Response::sendStatic on the descriptor it was given
SendAsset ==
    /\ probe.kind = "asset"
    /\ result = NoProbe
    /\ result' = [kind |-> "asset"] @@
                 sendStaticAsset([NewResponse EXCEPT
                                      !.staticSource = probe.source,
                                      !.staticInfo = AssetInfo(probe.logicalPath, probe.relPath,
                                                               probe.exists, probe.gz)],
                                 probe.stored,
                                 [templateActive |-> probe.templateActive,
                                  headSnippet |-> probe.headSnippet,
                                  value |-> probe.value,
                                  failAt |-> probe.failAt])
    /\ UNCHANGED <<serverVars, dispatchVars, probe>>

NextAsset == SendAsset

SpecAsset == InitAsset /\ [][NextAsset]_vars


\* C37: sendStatic of a descriptor with isGzipped = TRUE sets the header
\* Content-Encoding: gzip, takes the content type from the logical path,
\* and streams the stored bytes as they are: the template handler is not
\* called and no snippet is injected, whatever the logical path and whatever
\* handler or snippet is configured.
C37_GzipBypassesRender ==
    (result # NoProbe /\ result.kind = "asset" /\ probe.source # "None"
         /\ probe.exists /\ probe.gz) =>
        /\ [name |-> "Content-Encoding", value |-> "gzip"] \in result.headers
        /\ result.type = determineMimeType(LogicalPathOf(AssetInfo(probe.logicalPath,
                                               probe.relPath, TRUE, TRUE)))
        /\ probe.logicalPath = <<"/", "i", "n", "d", "e", "x", ".", "h", "t", "m", "l">> => result.type = <<"t", "e", "x", "t", "/", "h", "t", "m", "l">>
        /\ probe.logicalPath = <<"/", "a", "p", "p", ".", "j", "s">> => result.type = <<"a", "p", "p", "l", "i", "c", "a", "t", "i", "o", "n", "/", "j", "a", "v", "a", "s", "c", "r", "i", "p", "t">>
        /\ result.handlerCalls = 0
        /\ result.body \in {probe.stored, <<>>}
        /\ result.res.lastStatusCode = 200 => result.body = probe.stored

\* index.html.gz holding "<head>{{k}}", with a template handler and a
\* snippet configured, goes out as it is stored
C37_Witness ==
    /\ result # NoProbe /\ result.kind = "asset"
    /\ probe.source = "FileSystem" /\ probe.exists /\ probe.gz
    /\ probe.logicalPath = <<"/", "i", "n", "d", "e", "x", ".", "h", "t", "m", "l">>
    /\ probe.templateActive /\ probe.headSnippet = <<"S">>
    /\ probe.stored = <<"<", "h", "e", "a", "d", ">", "{", "{", "k", "}", "}">>
    /\ result.body = probe.stored
    /\ result.type = <<"t", "e", "x", "t", "/", "h", "t", "m", "l">>
    /\ result.res.lastStatusCode = 200

\* the prefix claims the URI: the URI is the prefix, or goes on with "/"
\* after it; the prefix "/" claims every URI
Qualifies(prefix, uri) ==
    \/ uri = prefix
    \/ StartsWith(uri, prefix \o <<"/">>)
    \/ prefix = <<"/">> /\ StartsWith(uri, prefix)

\* the registrations whose prefix claims the URI of the request
Qualifying == {k \in 1..Len(handlers) : Qualifies(handlers[k].uriPrefix, request.uri)}

\* C38: a dispatch invokes a static registration exactly when the request
\* is a GET whose URI some registered prefix claims (the URI is the prefix
\* or goes on with "/" after it; "/" claims every URI); the registration
\* invoked is the first registered one that claims it, and it is the only
\* callback of the dispatch, also when it resolves exists = FALSE.
C38_StaticPrefixSelection ==
    ~Idle =>
        /\ (\E i \in 1..Len(invoked) : invoked[i].kind = "static") <=>
               (request.method = "HTTP_GET" /\ Qualifying # {})
        /\ (request.method = "HTTP_GET" /\ Qualifying # {}) =>
               /\ Len(invoked) = 1
               /\ invoked[1].kind = "static"
               /\ invoked[1].id \in Qualifying
               /\ \A k \in Qualifying : invoked[1].id <= k
        /\ (request.method = "HTTP_GET" /\ handlers # <<>>
                /\ handlers[1].uriPrefix = <<"/", "s", "t", "a", "t", "i", "c">>) =>
               /\ request.uri = <<"/", "s", "t", "a", "t", "i", "c", "/", "a", "p", "p", ".", "j", "s">> =>
                      (invoked # <<>> /\ invoked[1].kind = "static" /\ invoked[1].id = 1)
               /\ request.uri = <<"/", "s", "t", "a", "t", "i", "c", "f", "i", "l", "e">> =>
                      ~(invoked # <<>> /\ invoked[1].kind = "static" /\ invoked[1].id = 1)

\* GET /static/nope with the file system registered for "/static" before
\* the memory table registered for "/": the file system resolves
\* exists = FALSE, its handler is the only callback, the answer is 404
C38_Witness ==
    /\ ~Idle
    /\ request.method = "HTTP_GET"
    /\ request.uri = <<"/", "s", "t", "a", "t", "i", "c", "/", "n", "o", "p", "e">>
    /\ Len(handlers) = 2
    /\ Qualifying = {1, 2}
    /\ Len(invoked) = 1
    /\ invoked[1].kind = "static"
    /\ invoked[1].id = 1
    /\ ~invoked[1].info.exists
    /\ response.lastStatusCode = 404

\* the path has a segment ".."
HasDotDot(path) ==
    \E i \in 1..(Len(path) - 1) :
        /\ path[i] = "." /\ path[i + 1] = "."
        /\ i = 1 \/ path[i - 1] = "/"
        /\ i + 1 = Len(path) \/ path[i + 2] = "/"

\* C39 as stated: the storage path that the file-system resolver selects
\* for a request starts with the basePath of the registration and has no
\* segment "..", whatever the request path, ".." written literally or
\* percent-encoded included.
C39_Original ==
    ~Idle =>
        \A i \in 1..Len(invoked) :
            (invoked[i].kind = "static" /\ handlers[invoked[i].id].type = "StaticFS") =>
                /\ StartsWith(invoked[i].info.fsPath, handlers[invoked[i].id].basePath)
                /\ ~HasDotDot(invoked[i].info.fsPath)

----------------------------------------------------------------------------
(* Response: cookies and the commit of the response                        *)

\* bound on the Response operations of one run
MaxOps == 4

\* a Cookie with its member defaults
DefaultCookie ==
    [name |-> <<>>, value |-> <<>>, path |-> <<"/">>, domain |-> <<>>, maxAge |-> -1,
     httpOnly |-> TRUE, secure |-> FALSE, sameSite |-> "Lax"]

\* a character below 0x20 or 0x7f: one that is not printable ASCII
containsControlChars(text) ==
    \E i \in 1..Len(text) : \A n \in 1..Len(Printable) : Printable[n] # text[i]

\* the Set-Cookie header that setCookie builds, attribute by attribute; an
\* attribute that is left out is empty, -1 or FALSE
SetCookieHeader(cookie) ==
    [name |-> cookie.name, value |-> cookie.value, path |-> cookie.path,
     domain |-> cookie.domain,
     maxAge |-> IF cookie.maxAge >= 0 THEN cookie.maxAge ELSE -1,
     secure |-> cookie.secure \/ cookie.sameSite = "None",
     httpOnly |-> cookie.httpOnly,
     sameSite |-> IF cookie.sameSite \in {"None", "Strict"} THEN cookie.sameSite ELSE "Lax"]

\* the cookie passes the test of setCookie
ValidCookie(cookie) ==
    ~(cookie.name = <<>> \/ containsControlChars(cookie.name)
          \/ containsControlChars(cookie.value))

\* setCookie that does not look at _responseCommitted
setCookieAnytime(res, cookies, cookie) ==
    IF ~ValidCookie(cookie) THEN cookies ELSE Append(cookies, SetCookieHeader(cookie))

\* Response::setCookie: the Set-Cookie headers of the response after the
\* call, the buffer of the header being allocated
setCookie(res, cookies, cookie) ==
    IF res.committed THEN cookies
    ELSE IF ~ValidCookie(cookie) THEN cookies
    ELSE Append(cookies, SetCookieHeader(cookie))

\* Response::clearCookie
clearCookie(res, cookies, name, path) ==
    setCookie(res, cookies,
              [DefaultCookie EXCEPT !.name = name, !.value = <<>>, !.path = path, !.maxAge = 0])

\* buildSessionCookie with the cookie name, path, flags of a default
\* SessionConfig
buildSessionCookie(maxAgeSeconds, value) ==
    [DefaultCookie EXCEPT !.name = <<"s", "i", "d">>, !.value = value,
                          !.maxAge = maxAgeSeconds]

\* the Set-Cookie of beginSession for the session id <<"i", "d">>
beginSession(res, cookies, isNew, maxAgeSeconds) ==
    IF isNew \/ maxAgeSeconds >= 0
    THEN setCookie(res, cookies, buildSessionCookie(maxAgeSeconds, <<"i", "d">>))
    ELSE cookies

\* Response::endChunked
endChunked(res) == IF ~res.chunked THEN res ELSE [res EXCEPT !.chunked = FALSE]

\* the cookies that handlers set: two valid ones, one of them SameSite=None,
\* one without a name, one with a line feed in its value
Cookies ==
    { [DefaultCookie EXCEPT !.name = <<"a">>, !.value = <<"1">>],
      [DefaultCookie EXCEPT !.name = <<"b">>, !.value = <<"2">>, !.sameSite = "None",
                            !.maxAge = 60],
      [DefaultCookie EXCEPT !.value = <<"1">>],
      [DefaultCookie EXCEPT !.name = <<"a">>, !.value = <<"1", "\n">>] }

\* the operation that was called last
Op(name, cookie) == [name |-> name, cookie |-> cookie]

\* the Response after an operation
After(res, cookies, op) ==
    [kind |-> "response", res |-> res, cookies |-> cookies, op |-> op, n |-> result.n + 1]

\* the Response of a request: Response::attachRequest
InitResponse ==
    /\ handle = FALSE
    /\ methodHooks = {}
    /\ dynamicRoutes = <<>>
    /\ notFoundHandler = 0
    /\ handlers = <<>>
    /\ onCalls = 0
    /\ request = NoRequest
    /\ response = NewResponse
    /\ invoked = <<>>
    /\ workers = NoWorkers
    /\ probe = [kind |-> "response"]
    /\ \E res \in {NewResponse, StaticResponse} :
           result = [kind |-> "response", res |-> res, cookies |-> <<>>,
                     op |-> Op("attachRequest", DefaultCookie), n |-> 0]

CanCall == probe.kind = "response" /\ result.n < MaxOps

\* the Response is attached to the next request
AttachRequest ==
    /\ CanCall
    /\ \E res \in {NewResponse, StaticResponse} :
           result' = After(res, <<>>, Op("attachRequest", DefaultCookie))
    /\ UNCHANGED <<serverVars, dispatchVars, probe>>

CallSetCookie ==
    /\ CanCall
    /\ \E cookie \in Cookies :
           result' = After(result.res, setCookie(result.res, result.cookies, cookie),
                           Op("setCookie", cookie))
    /\ UNCHANGED <<serverVars, dispatchVars, probe>>

CallClearCookie ==
    /\ CanCall
    /\ \E name \in {<<>>, <<"a">>} :
           result' = After(result.res,
                           clearCookie(result.res, result.cookies, name, <<"/">>),
                           Op("clearCookie", [DefaultCookie EXCEPT !.name = name,
                                                                   !.maxAge = 0]))
    /\ UNCHANGED <<serverVars, dispatchVars, probe>>

CallBeginSession ==
    /\ CanCall
    /\ \E isNew \in BOOLEAN, maxAgeSeconds \in {-1, 60} :
           result' = After(result.res,
                           beginSession(result.res, result.cookies, isNew, maxAgeSeconds),
                           Op(IF isNew \/ maxAgeSeconds >= 0 THEN "beginSession"
                                                             ELSE "beginSessionKept",
                              buildSessionCookie(maxAgeSeconds, <<"i", "d">>)))
    /\ UNCHANGED <<serverVars, dispatchVars, probe>>

\* send, beginChunked, sendStatic, sendError, redirect
CallCommitting ==
    /\ CanCall
    /\ \E name \in {"send", "beginChunked", "sendStatic", "sendError", "redirect"},
          streamOk \in BOOLEAN :
           result' = After(CASE name = "send" -> send(result.res, "user", 200)
                             [] name = "beginChunked" -> beginChunked(result.res, "user", 200)
                             [] name = "sendStatic" -> sendStatic(result.res, "user", streamOk)
                             [] name = "sendError" -> sendError(result.res, "user", 403)
                             [] name = "redirect" -> redirect(result.res, "user", 302),
                           result.cookies, Op(name, DefaultCookie))
    /\ UNCHANGED <<serverVars, dispatchVars, probe>>

CallEndChunked ==
    /\ CanCall
    /\ result' = After(endChunked(result.res), result.cookies, Op("endChunked", DefaultCookie))
    /\ UNCHANGED <<serverVars, dispatchVars, probe>>

NextResponse ==
    \/ AttachRequest
    \/ CallSetCookie
    \/ CallClearCookie
    \/ CallBeginSession
    \/ CallCommitting
    \/ CallEndChunked

SpecResponse == InitResponse /\ [][NextResponse]_vars


\* the operations that commit the response
CommittingOps == {"send", "beginChunked", "sendStatic", "sendError", "redirect"}

\* the operations that end in Response::setCookie
CookieOps == {"setCookie", "clearCookie", "beginSession"}

\* C40: once the response is committed, by send, beginChunked, sendStatic,
\* sendError or redirect, a call of setCookie or clearCookie (or of
\* beginSession, which calls setCookie) adds no Set-Cookie header and
\* changes nothing of the Response; a setCookie call with a valid cookie
\* before the commit adds exactly one Set-Cookie header, at the end, and
\* leaves the response uncommitted; and within a request a committed
\* response stays committed.
C40_NoCookieAfterCommit ==
    [][(probe.kind = "response" /\ result'.n = result.n + 1) =>
           /\ result'.op.name \in CommittingOps => result'.res.committed
           /\ (result.res.committed /\ result'.op.name # "attachRequest") =>
                  result'.res.committed
           /\ (result.res.committed /\ result'.op.name \in CookieOps) =>
                  /\ result'.cookies = result.cookies
                  /\ result'.res = result.res
           /\ (~result.res.committed /\ result'.op.name \in {"setCookie", "beginSession"}
                   /\ ValidCookie(result'.op.cookie)) =>
                  /\ Len(result'.cookies) = Len(result.cookies) + 1
                  /\ SubSeq(result'.cookies, 1, Len(result.cookies)) = result.cookies
                  /\ result'.cookies[Len(result'.cookies)].name = result'.op.cookie.name
                  /\ result'.res = result.res]_vars

\* a valid setCookie, a commit, and another valid setCookie: the response
\* carries the one header of the first call
C40_Witness ==
    /\ probe.kind = "response"
    /\ result.n = 3
    /\ result.op.name = "setCookie"
    /\ ValidCookie(result.op.cookie)
    /\ result.op.cookie.name = <<"b">>
    /\ result.res.committed
    /\ Len(result.cookies) = 1
    /\ result.cookies[1].name = <<"a">>

====
